---- MODULE Spec2Model ----
(***************************************************************************)
(* Webhook relay: signature verification, routing, provider dispatch and   *)
(* bounded logging over a key-value store, plus the analytics ingestor.    *)
(*                                                                         *)
(* Two revisions of the dispatcher are modelled, selected by `mode`:       *)
(*   "bg"   functions/api/v1/webhook/[[path]].ts  (respond, then process   *)
(*          in a waitUntil task)                                           *)
(*   "sync" unnamed/part_002 (await every step, then respond; the outer    *)
(*          catch overwrites the log with one 'system' entry)              *)
(***************************************************************************)
EXTENDS Integers, Sequences, FiniteSets, TLC

VARIABLES
  kv,      \* the key-value store WEBHOOKS_KV: key -> [exists, val]
  mode,    \* which revision of the dispatcher is deployed
  clock,   \* logical time; `now` of a request is the clock at its start
  req,     \* per request: inputs, locals of onRequestPost, position, response
  seqlog,  \* driver of the sequential logEvent runs
  ana,     \* per analytics task: inputs, locals, position
  adm      \* per admin call: inputs, locals, position, response

vars == <<kv, mode, clock, req, seqlog, ana, adm>>

-----------------------------------------------------------------------------
(* Values *)

Undef == "undefined"

\* A key absent from the store: kv.get resolves to null.
Absent == [exists |-> FALSE]

Stored(v) == [exists |-> TRUE, val |-> v]

KeyWebhook(id) == <<"webhook", id>>
KeyLogs_Shared(id) == <<"logs", "w1">>
\* const logKey = `logs:${webhookId}`
KeyLogs(id) == <<"logs", id>>
KeyIndex == <<"webhooks", "index">>
KeyStats == <<"appwallet", "stats">>
KeyRecent == <<"appwallet", "recent">>
KeyAppConfig == <<"appwallet", "config">>
KeyAppLogs == <<"appwallet", "logs">>
KeyDevice(d) == <<"appwallet:device", d>>

Ids == {"w1", "w2"}

\* if (logs.length > 10) logs.length = 10
MaxLogs == 10

-----------------------------------------------------------------------------
(* Request bodies.  A raw body is the text the sender signed; JsonParse is  *)
(* what JSON.parse followed by `const { type, data } = eventData` yields.   *)

RawBodies ==
  { "not json",
    "{type:webhook.verify,data:{token:abc123}}",
    "{type:webhook.verify}",
    "{data:{token:tok2}}",
    "{data:{}}",
    "{type:pass.updated,data:{passSerialNumber:S1}}" }

Event(type, hasData, token, serial) ==
  [throws |-> FALSE, type |-> type, hasData |-> hasData, token |-> token, serial |-> serial]

ParseError == [throws |-> TRUE, type |-> Undef, hasData |-> FALSE, token |-> Undef, serial |-> Undef]

JsonParse(raw) ==
  CASE raw = "{type:webhook.verify,data:{token:abc123}}" -> Event("webhook.verify", TRUE, "abc123", Undef)
    [] raw = "{type:webhook.verify}" -> Event("webhook.verify", FALSE, Undef, Undef)
    [] raw = "{data:{token:tok2}}" -> Event(Undef, TRUE, "tok2", Undef)
    [] raw = "{data:{}}" -> Event(Undef, TRUE, Undef, Undef)
    [] raw = "{type:pass.updated,data:{passSerialNumber:S1}}" -> Event("pass.updated", TRUE, Undef, "S1")
    [] OTHER -> ParseError

\* JavaScript truthiness of a string-or-undefined value.
Truthy(s) == s # Undef /\ s # ""

IsVerify_TypedOnly(ev) == ev.type = "webhook.verify"

\* type === 'webhook.verify' || (!type && data?.token)
IsVerify(ev) ==
  \/ ev.type = "webhook.verify"
  \/ (~Truthy(ev.type) /\ ev.hasData /\ Truthy(ev.token))

-----------------------------------------------------------------------------
(* Signatures.  HMAC-SHA1 is modelled symbolically: the digest of a body    *)
(* under a key is the term (key, body), so that two digests are equal only  *)
(* for the same key and the same raw bytes.                                 *)

Secrets == {"K1", "K2"}

SigText(prefix, key, msg) == [prefix |-> prefix, key |-> key, msg |-> msg]

\* `sha1=${hex(HMAC-SHA1(secretKey, bodyText))}`
Digest(secretKey, bodyText) == SigText("sha1=", secretKey, bodyText)

\* request.headers.get('x-passslot-signature'): null when the header is absent
NoHeader == [present |-> FALSE, text |-> SigText("", "", "")]

Header(text) == [present |-> TRUE, text |-> text]

EmptyHeader == Header(SigText("", "", ""))

SignedBodies == {"{type:pass.updated,data:{passSerialNumber:S1}}", "{data:{}}"}

Headers ==
  {NoHeader, EmptyHeader}
    \cup {Header(Digest("K1", b)) : b \in SignedBodies}
    \cup {Header(Digest(k, "{type:pass.updated,data:{passSerialNumber:S1}}")) : k \in Secrets}
    \cup {Header(SigText("", "K1", "{type:pass.updated,data:{passSerialNumber:S1}}"))}

\* !signature
SignatureMissing(h) == ~h.present \/ h.text = SigText("", "", "")

SignatureMismatch_NoPrefix(h, secretKey, bodyText) ==
  ~(h.text.key = secretKey /\ h.text.msg = bodyText)

SignatureMismatch_AnyKey(h, secretKey, bodyText) ==
  ~(h.text.prefix = "sha1=" /\ h.text.msg = bodyText)

\* signature !== digest
SignatureMismatch(h, secretKey, bodyText) == h.text # Digest(secretKey, bodyText)

-----------------------------------------------------------------------------
(* Provider registry *)

ProviderNames == {"chatbotbuilder", "custom_http", "zapier", "make", "slack", "n8n", "whatsapp"}

NotFound == "undefined"

GetProvider_Any(name) == name

\* The members every object literal inherits from Object.prototype.
InheritedNames ==
  { "constructor", "toString", "valueOf", "hasOwnProperty", "isPrototypeOf",
    "propertyIsEnumerable", "toLocaleString", "__proto__" }

\* What providers[name] is for an inherited name: a function or object of
\* Object.prototype, truthy and without an execute member.
Inherited == "Object.prototype member"

\* providers[name], a property lookup on the object literal `providers`
GetProvider(name) ==
  IF name \in ProviderNames THEN name
  ELSE IF name \in InheritedNames THEN Inherited
  ELSE NotFound

\* What the outbound HTTP call of a provider does.
HttpOutcomes == {"2xx", "500", "neterr"}

Result(success, message) == [threw |-> FALSE, success |-> success, message |-> message]

Threw(message) == [threw |-> TRUE, success |-> FALSE, message |-> message]

\* execute(eventData, providerConfig, metadata) of the registered providers:
\* fetch rejects on a network error (nothing catches it), a non-2xx answer
\* becomes {success:false}, a 2xx answer {success:true}.
ProviderExecute(name, ev, http) ==
  IF name = Inherited THEN Threw("provider.execute is not a function")
  ELSE IF name = "chatbotbuilder" /\ ~Truthy(ev.serial)
    THEN Result(FALSE, "passSerialNumber no encontrado en el evento")
  ELSE IF http = "neterr" THEN Threw("fetch failed")
  ELSE IF http = "500"
    THEN Result(FALSE, IF name = "chatbotbuilder" THEN "Usuario no encontrado" ELSE "HTTP 500")
  ELSE Result(TRUE, "enviado")

-----------------------------------------------------------------------------
(* Stored webhook configs *)

Config(provider, isActive) ==
  [ businessName |-> "Biz", secretKey |-> "K1", provider |-> provider,
    isActive |-> isActive,
    lastEventAt |-> 0, lastEventType |-> Undef, lastEventStatus |-> Undef ]

ConfigTemplates ==
  { Config("custom_http", TRUE), Config("custom_http", FALSE),
    Config(Undef, TRUE), Config("bogus", TRUE) }

\* config.provider || 'chatbotbuilder'
ProviderNameOf(config) == IF Truthy(config.provider) THEN config.provider ELSE "chatbotbuilder"

ProviderConfigOf_Empty(config) ==
  IF "providerConfig" \in DOMAIN config THEN config.providerConfig
  ELSE [apiToken |-> Undef, customFieldId |-> Undef, flowId |-> Undef]

\* config.providerConfig || { apiToken: config.apiToken, customFieldId:
\* config.customFieldId, flowId: config.flowId }   (a member the stored JSON
\* lacks reads as undefined; a providerConfig the admin surface stored is an
\* object, hence truthy)
ProviderConfigOf(config) ==
  LET Member(k) == IF k \in DOMAIN config THEN config[k] ELSE Undef
  IN IF "providerConfig" \in DOMAIN config THEN config.providerConfig
     ELSE [ apiToken |-> Member("apiToken"),
            customFieldId |-> Member("customFieldId"),
            flowId |-> Member("flowId") ]

\* Stored configs of every provider name and of both shapes: the legacy shape
\* keeps its provider settings at the top level, the shape the admin surface
\* writes keeps them in providerConfig.
StoredConfigs ==
  LET WithMembers(obj, extra) ==
        [k \in DOMAIN obj \cup DOMAIN extra |-> IF k \in DOMAIN extra THEN extra[k] ELSE obj[k]]
      LegacyMembers == [apiToken |-> "T1", customFieldId |-> "F1", flowId |-> "FL1"]
      StoredProviderConfig == [providerConfig |-> [url |-> "https://example.test/hook"]]
  IN { WithMembers(Config(p, TRUE), m) :
         p \in ProviderNames \cup {Undef, "bogus", "constructor", "toString"},
         m \in {LegacyMembers, StoredProviderConfig} }

-----------------------------------------------------------------------------
(* Log entries and logEvent *)

Entry(time, type, status, message, provider, passSerial) ==
  [ time |-> time, type |-> type, status |-> status, message |-> message,
    provider |-> provider, passSerial |-> passSerial ]

\* An entry written before the run starts.
OldEntry(i) == Entry(0 - i, "pass.updated", "ok", "enviado", "custom_http", "S1")

Take(s, n) == IF Len(s) > n THEN SubSeq(s, 1, n) ELSE s

LogsRead_Empty(stored) == <<>>

\* raw ? JSON.parse(raw) : []
LogsRead(stored) == IF stored.exists THEN stored.val ELSE <<>>

LogUnshift_NoTruncate(logs, entry) == <<entry>> \o logs

LogUnshift_Push(logs, entry) == Take(logs \o <<entry>>, MaxLogs)

\* logs.unshift(entry); if (logs.length > 10) logs.length = 10
LogUnshift(logs, entry) == Take(<<entry>> \o logs, MaxLogs)

-----------------------------------------------------------------------------
(* Responses *)

Resp(status, contentType, body) == [status |-> status, contentType |-> contentType, body |-> body]

NoResp == Resp(0, "", "")

RespNotFound == Resp(404, "text/plain", "Configuracion de Webhook no encontrada.")
RespNoSignature == Resp(401, "text/plain", "No signature provided")
RespInvalidSignature == Resp(403, "text/plain", "Invalid signature")
RespInactive == Resp(403, "text/plain", "Este webhook esta inactivo.")
RespUnsupported == Resp(400, "text/plain", "Provider no soportado.")
RespAccepted == Resp(200, "application/json", "Evento recibido, procesando...")
RespInternal == Resp(500, "text/plain", "Error interno del servidor.")

\* new Response(data.token, {status: 200, 'Content-Type': 'text/plain'})
RespToken(token) == Resp(200, "text/plain", IF token = Undef THEN "" ELSE token)

RespResult_NoCheck(result) == Resp(200, "application/json", result.message)

\* sync revision: 422 with result.message, or 200 with the JSON result
RespResult(result) ==
  IF result.success THEN Resp(200, "application/json", result.message)
  ELSE Resp(422, "text/plain", result.message)

-----------------------------------------------------------------------------
(* The checks of onRequestPost, in the order the code makes them.           *)
(* verdict: where the request leaves the pipeline; passed: the checks it    *)
(* got through before.                                                      *)

Verdict(verdict, passed) == [verdict |-> verdict, passed |-> passed]

Pipeline_SkipActive(stored, raw, h) ==
  IF ~stored.exists THEN Verdict("notfound", <<>>)
  ELSE LET config == stored.val
           ev == JsonParse(raw)
       IN IF ev.throws THEN Verdict("parse_error", <<"config">>)
          ELSE IF IsVerify(ev)
            THEN Verdict(IF ev.hasData THEN "verify" ELSE "verify_nodata", <<"config">>)
          ELSE IF SignatureMissing(h) THEN Verdict("nosig", <<"config">>)
          ELSE IF SignatureMismatch(h, config.secretKey, raw) THEN Verdict("badsig", <<"config">>)
          ELSE IF GetProvider(ProviderNameOf(config)) = NotFound
            THEN Verdict("noprovider", <<"config", "signature">>)
          ELSE Verdict("pass", <<"config", "signature", "provider">>)

Pipeline_ActiveFirst(stored, raw, h) ==
  IF ~stored.exists THEN Verdict("notfound", <<>>)
  ELSE LET config == stored.val
           ev == JsonParse(raw)
       IN IF ev.throws THEN Verdict("parse_error", <<"config">>)
          ELSE IF IsVerify(ev)
            THEN Verdict(IF ev.hasData THEN "verify" ELSE "verify_nodata", <<"config">>)
          ELSE IF ~config.isActive THEN Verdict("inactive", <<"config">>)
          ELSE IF SignatureMissing(h) THEN Verdict("nosig", <<"config", "active">>)
          ELSE IF SignatureMismatch(h, config.secretKey, raw)
            THEN Verdict("badsig", <<"config", "active">>)
          ELSE IF GetProvider(ProviderNameOf(config)) = NotFound
            THEN Verdict("noprovider", <<"config", "active", "signature">>)
          ELSE Verdict("pass", <<"config", "active", "signature", "provider">>)

Pipeline_VerifyFirst(stored, raw, h) ==
  IF ~stored.exists THEN Verdict("notfound", <<>>)
  ELSE LET config == stored.val
           ev == JsonParse(raw)
       IN IF ~ev.throws /\ IsVerify(ev)
            THEN Verdict(IF ev.hasData THEN "verify" ELSE "verify_nodata", <<"config">>)
          ELSE IF SignatureMissing(h) THEN Verdict("nosig", <<"config">>)
          ELSE IF SignatureMismatch(h, config.secretKey, raw) THEN Verdict("badsig", <<"config">>)
          ELSE IF ev.throws THEN Verdict("parse_error", <<"config", "signature">>)
          ELSE IF ~config.isActive THEN Verdict("inactive", <<"config", "signature">>)
          ELSE IF GetProvider(ProviderNameOf(config)) = NotFound
            THEN Verdict("noprovider", <<"config", "signature", "active">>)
          ELSE Verdict("pass", <<"config", "signature", "active", "provider">>)

Pipeline(stored, raw, h) ==
  IF ~stored.exists THEN Verdict("notfound", <<>>)
  ELSE LET config == stored.val
           ev == JsonParse(raw)
       IN IF ev.throws THEN Verdict("parse_error", <<"config">>)
          ELSE IF IsVerify(ev)
            THEN Verdict(IF ev.hasData THEN "verify" ELSE "verify_nodata", <<"config">>)
          ELSE IF SignatureMissing(h) THEN Verdict("nosig", <<"config">>)
          ELSE IF SignatureMismatch(h, config.secretKey, raw) THEN Verdict("badsig", <<"config">>)
          ELSE IF ~config.isActive THEN Verdict("inactive", <<"config", "signature">>)
          ELSE IF GetProvider(ProviderNameOf(config)) = NotFound
            THEN Verdict("noprovider", <<"config", "signature", "active">>)
          ELSE Verdict("pass", <<"config", "signature", "active", "provider">>)

\* type || 'unknown'
TypeOrUnknown(type) == IF Truthy(type) THEN type ELSE "unknown"

NoEntry == Entry(0, Undef, Undef, Undef, Undef, Undef)

\* The entry handed to logEvent on each exit before the provider call.
ExitEntry(verdict, ev, config, now) ==
  CASE verdict \in {"verify", "verify_nodata"} ->
         Entry(now, "webhook.verify", "ok", "Verificacion de webhook exitosa", Undef, Undef)
    [] verdict = "nosig" ->
         Entry(now, TypeOrUnknown(ev.type), "error", "Sin firma HMAC", Undef, Undef)
    [] verdict = "badsig" ->
         Entry(now, TypeOrUnknown(ev.type), "error", "Firma HMAC invalida", Undef, Undef)
    [] verdict = "inactive" ->
         Entry(now, ev.type, "blocked", "Webhook inactivo", Undef, Undef)
    [] verdict = "noprovider" ->
         Entry(now, ev.type, "error", "Provider no encontrado", Undef, Undef)
    [] OTHER -> NoEntry

\* The response of each exit that does not wait for the provider (a thrown
\* TypeError or SyntaxError ends in the outer catch's 500).
ExitResp(verdict, ev) ==
  CASE verdict = "notfound" -> RespNotFound
    [] verdict = "verify" -> RespToken(ev.token)
    [] verdict = "nosig" -> RespNoSignature
    [] verdict = "badsig" -> RespInvalidSignature
    [] verdict = "inactive" -> RespInactive
    [] verdict = "noprovider" -> RespUnsupported
    [] verdict = "pass" -> RespAccepted
    [] OTHER -> RespInternal

\* status: result.success ? 'ok' : 'error'
ResultStatus(result) == IF result.success THEN "ok" ELSE "error"

\* The entry logged after provider.execute resolved.
ResultEntry(result, ev, providerName, now) ==
  Entry(now, ev.type, ResultStatus(result), result.message, providerName,
        IF Truthy(ev.serial) THEN ev.serial ELSE "null")

ThrownEntry_NoMessage(result, ev, providerName, now) ==
  Entry(now, ev.type, "error", "Error en provider", providerName, Undef)

\* The entry logged by the background task's catch.
ThrownEntry(result, ev, providerName, now) ==
  Entry(now, ev.type, "error", "Error en provider: " \o result.message, providerName, Undef)

\* The entry the sync revision's outer catch writes.
SystemEntry(now, message) ==
  Entry(now, "system", "error", "Error interno: " \o message, Undef, Undef)

WithLastEvent_Stale(config, now, type, status) == config

\* { ...config, lastEventAt: now, lastEventType: type, lastEventStatus: ... }
WithLastEvent(config, now, type, status) ==
  [config EXCEPT !.lastEventAt = now, !.lastEventType = type, !.lastEventStatus = status]

AwaitsProvider_Always(m) == TRUE

\* Whether the handler awaits provider.execute before it responds.
AwaitsProvider(m) == m = "sync"

-----------------------------------------------------------------------------
(* Dispatcher requests *)

Reqs == {"r1", "r2"}

\* Entries already in logs:w1 when the run starts (0 when the key is absent).
InitLogLen == 9

IdleReq ==
  [ pc |-> "idle", id |-> "w1", raw |-> "not json", header |-> NoHeader, now |-> 0,
    stored |-> Absent, verdict |-> "none", passed |-> <<>>, ev |-> ParseError,
    resp |-> NoResp, entry |-> NoEntry, logs |-> <<>>, next |-> "done",
    cfgPending |-> FALSE, result |-> Result(FALSE, ""),
    executed |-> FALSE, logged |-> <<>>, writes |-> {},
    dispatch |-> [provider |-> NotFound, config |-> ProviderConfigOf_Empty(<<>>)] ]

DeviceIds == {"devicA00-1234", "devicB00-5678"}

Keys ==
  {KeyWebhook(i) : i \in Ids} \cup {KeyLogs(i) : i \in Ids}
    \cup {KeyIndex, KeyStats, KeyRecent, KeyAppConfig, KeyAppLogs}
    \cup {KeyDevice(d) : d \in DeviceIds}

EmptyStore == [k \in Keys |-> Absent]

OldLogs(n) == [i \in 1..n |-> OldEntry(i)]

Step(pc, next, respond) == [pc |-> pc, next |-> next, respond |-> respond]

Plan_LogNotFound(m, v) ==
  CASE v = "parse_error" ->
         IF m = "sync" THEN Step("fallback", "done", FALSE) ELSE Step("done", "done", TRUE)
    [] v = "verify_nodata" ->
         IF m = "sync" THEN Step("logget", "fallback", FALSE) ELSE Step("logget", "done", TRUE)
    [] v = "pass" -> Step("exec", "done", ~AwaitsProvider(m))
    [] OTHER ->
         IF m = "sync" THEN Step("logget", "respond", FALSE) ELSE Step("logget", "done", TRUE)

Plan_TouchesConfig(m, v) ==
  CASE v = "notfound" -> Step("done", "done", TRUE)
    [] v = "parse_error" ->
         IF m = "sync" THEN Step("fallback", "done", FALSE) ELSE Step("done", "done", TRUE)
    [] v = "verify_nodata" ->
         IF m = "sync" THEN Step("logget", "fallback", FALSE) ELSE Step("logget", "done", TRUE)
    [] v = "pass" -> Step("exec", "done", ~AwaitsProvider(m))
    [] OTHER -> Step("logget", "cfgput", m # "sync")

\* What onRequestPost does once the checks have placed the request: where it
\* continues, what follows logEvent, and whether the response is returned
\* before anything is awaited.
\*   not found: return 404 at once, nothing logged
\*   JSON.parse throws: the outer catch (sync: the fallback write, then 500)
\*   handshake without data: logEvent is called, then data.token throws
\*   checks passed: the provider call (bg: inside waitUntil, 200 returned)
\*   every other exit: logEvent (bg: inside waitUntil), and its response
Plan(m, v) ==
  CASE v = "notfound" -> Step("done", "done", TRUE)
    [] v = "parse_error" ->
         IF m = "sync" THEN Step("fallback", "done", FALSE) ELSE Step("done", "done", TRUE)
    [] v = "verify_nodata" ->
         IF m = "sync" THEN Step("logget", "fallback", FALSE) ELSE Step("logget", "done", TRUE)
    [] v = "pass" -> Step("exec", "done", ~AwaitsProvider(m))
    [] OTHER ->
         IF m = "sync" THEN Step("logget", "respond", FALSE) ELSE Step("logget", "done", TRUE)

\* onRequestPost up to its first response or its first awaited store write
\* (the requests are numbered in the order they arrive): kv.get(`webhook:${id}`),
\* request.text(), JSON.parse, the handshake test, the signature, active and
\* provider checks.
Start(r) ==
  /\ req[r].pc = "idle"
  /\ r = "r2" => req["r1"].pc # "idle"
  /\ \E id \in Ids, raw \in RawBodies, h \in Headers :
       LET now == clock + 1
           stored == kv[KeyWebhook(id)]
           p == Pipeline(stored, raw, h)
           v == p.verdict
           ev == JsonParse(raw)
           plan == Plan(mode, v)
       IN /\ clock' = now
          /\ req' = [req EXCEPT ![r] =
               [ req[r] EXCEPT !.id = id, !.raw = raw, !.header = h, !.now = now,
                               !.stored = stored, !.verdict = v, !.passed = p.passed,
                               !.ev = ev, !.pc = plan.pc, !.next = plan.next,
                               !.entry = ExitEntry(v, ev, stored, now),
                               !.resp = IF plan.respond THEN ExitResp(v, ev) ELSE NoResp ] ]
  /\ UNCHANGED <<kv, mode, seqlog, ana, adm>>

\* await provider.execute(eventData, providerConfig, metadata)
Exec(r) ==
  /\ req[r].pc = "exec"
  /\ \E http \in HttpOutcomes :
       LET q == req[r]
           name == ProviderNameOf(q.stored.val)
           result == ProviderExecute(GetProvider(name), q.ev, http)
           ran == [q EXCEPT !.executed = TRUE, !.result = result,
                            !.passed = Append(q.passed, "execute"),
                            !.dispatch = [provider |-> GetProvider(name),
                                          config |-> ProviderConfigOf(q.stored.val)]]
       IN req' = [req EXCEPT ![r] =
            IF AwaitsProvider(mode)
              THEN IF result.threw
                     THEN [ran EXCEPT !.pc = "fallback"]
                     ELSE [ran EXCEPT !.pc = "logget", !.next = "cfgput",
                                      !.entry = ResultEntry(result, q.ev, name, q.now)]
              ELSE IF result.threw
                     THEN [ran EXCEPT !.pc = "logget", !.next = "done",
                                      !.entry = ThrownEntry(result, q.ev, name, q.now)]
                     ELSE [ran EXCEPT !.pc = "logget", !.next = "done", !.cfgPending = TRUE,
                                      !.entry = ResultEntry(result, q.ev, name, q.now)] ]
  /\ UNCHANGED <<kv, mode, clock, seqlog, ana, adm>>

\* logEvent, first half: const raw = await kv.get(logKey)
LogGet(r) ==
  /\ req[r].pc = "logget"
  /\ req' = [req EXCEPT ![r].pc = "logput",
                        ![r].logs = LogsRead(kv[KeyLogs(req[r].id)])]
  /\ UNCHANGED <<kv, mode, clock, seqlog, ana, adm>>

\* logEvent, second half: unshift, truncate, await kv.put(logKey, ...); then
\* what the caller does once logEvent resolved.
LogPut(r) ==
  /\ req[r].pc = "logput"
  /\ LET q == req[r]
         wrote == [q EXCEPT !.logged = Append(q.logged, q.entry),
                            !.writes = q.writes \cup {KeyLogs(q.id)}]
     IN /\ kv' = [kv EXCEPT ![KeyLogs(q.id)] = Stored(LogUnshift(q.logs, q.entry))]
        /\ req' = [req EXCEPT ![r] =
             CASE q.next = "respond" ->
                    [wrote EXCEPT !.pc = "done", !.resp = ExitResp(q.verdict, q.ev)]
               [] q.next = "fallback" -> [wrote EXCEPT !.pc = "fallback"]
               [] q.next = "cfgput" -> [wrote EXCEPT !.pc = "cfgput"]
               [] OTHER -> [wrote EXCEPT !.pc = IF q.cfgPending THEN "cfgwait" ELSE "done"] ]
  /\ UNCHANGED <<mode, clock, seqlog, ana, adm>>

\* bg revision: the kv.put of Promise.all([logEvent(...), kv.put(`webhook:${id}`, ...)]),
\* which runs beside logEvent.
ConfigPutParallel(r) ==
  /\ req[r].cfgPending
  /\ req[r].pc \in {"logget", "logput", "cfgwait"}
  /\ LET q == req[r]
     IN /\ kv' = [kv EXCEPT ![KeyWebhook(q.id)] =
               Stored(WithLastEvent(q.stored.val, q.now, q.ev.type, ResultStatus(q.result)))]
        /\ req' = [req EXCEPT ![r].cfgPending = FALSE,
                              ![r].writes = q.writes \cup {KeyWebhook(q.id)},
                              ![r].pc = IF q.pc = "cfgwait" THEN "done" ELSE q.pc]
  /\ UNCHANGED <<mode, clock, seqlog, ana, adm>>

\* sync revision: await kv.put(`webhook:${id}`, updated), then the 422 or 200.
ConfigPutThenRespond(r) ==
  /\ req[r].pc = "cfgput"
  /\ LET q == req[r]
     IN /\ kv' = [kv EXCEPT ![KeyWebhook(q.id)] =
               Stored(WithLastEvent(q.stored.val, q.now, q.ev.type, ResultStatus(q.result)))]
        /\ req' = [req EXCEPT ![r].pc = "done",
                              ![r].writes = q.writes \cup {KeyWebhook(q.id)},
                              ![r].resp = RespResult(q.result)]
  /\ UNCHANGED <<mode, clock, seqlog, ana, adm>>

\* error.message of what the outer catch of onRequestPost caught: the
\* SyntaxError of JSON.parse, the TypeError of data.token, the rejection of
\* provider.execute, or a failed store call.
ErrorMessage(q) ==
  CASE q.verdict = "parse_error" -> "Unexpected token"
    [] q.verdict = "verify_nodata" /\ q.next # "failed" -> "Cannot read properties of undefined"
    [] q.result.threw -> q.result.message
    [] OTHER -> "KV error"

Fallback_NoLog(r) ==
  /\ req[r].pc = "fallback"
  /\ req' = [req EXCEPT ![r].pc = "done", ![r].resp = RespInternal]
  /\ UNCHANGED <<kv, mode, clock, seqlog, ana, adm>>

\* sync revision, outer catch: kv.put(`logs:${id}`, [system entry]), then 500.
Fallback(r) ==
  /\ req[r].pc = "fallback"
  /\ LET q == req[r]
     IN /\ kv' = [kv EXCEPT ![KeyLogs(q.id)] = Stored(<<SystemEntry(q.now, ErrorMessage(q))>>)]
        /\ req' = [req EXCEPT ![r].pc = "done",
                              ![r].resp = RespInternal,
                              ![r].logged = Append(q.logged, SystemEntry(q.now, ErrorMessage(q))),
                              ![r].writes = q.writes \cup {KeyLogs(q.id)}]
  /\ UNCHANGED <<mode, clock, seqlog, ana, adm>>

-----------------------------------------------------------------------------
(* logEvent called n times in a row, each call completing before the next   *)

\* How many entries the sequential driver logs.
MaxSeqEvents == 12

IdleSeqlog == [pc |-> "off", hist |-> <<>>, logs |-> <<>>, entry |-> NoEntry]

\* logEvent, first half, for the next event of the sequence
SeqLogGet ==
  /\ seqlog.pc = "get"
  /\ Len(seqlog.hist) < MaxSeqEvents
  /\ \E status \in {"ok", "error"} :
       seqlog' = [seqlog EXCEPT
                    !.pc = "put",
                    !.logs = LogsRead(kv[KeyLogs("w1")]),
                    !.entry = Entry(Len(seqlog.hist) + 1, "pass.updated", status,
                                    "enviado", "custom_http", "S1")]
  /\ UNCHANGED <<kv, mode, clock, req, ana, adm>>

\* logEvent, second half
SeqLogPut ==
  /\ seqlog.pc = "put"
  /\ kv' = [kv EXCEPT ![KeyLogs("w1")] = Stored(LogUnshift(seqlog.logs, seqlog.entry))]
  /\ seqlog' = [seqlog EXCEPT !.pc = "get", !.hist = Append(seqlog.hist, seqlog.entry),
                              !.logs = <<>>, !.entry = NoEntry]
  /\ UNCHANGED <<mode, clock, req, ana, adm>>

-----------------------------------------------------------------------------
(* Analytics ingestor: POST /api/v1/appwallet/analytics *)

AnaTasks == {"t1", "t2"}

\* Event names a client sends: two ordinary ones, and one that every
\* JavaScript object inherits from Object.prototype.
EventNames == {"app_open", "pass_added", "constructor"}

\* eventCounts: {} and what JSON.parse gives for a stored eventCounts: a number
\* under each name the object has as its own member (0 stands for a name that
\* is not there); under an inherited name a text, "" as long as the object
\* has no member of its own of that name.
NoCounts == [e \in EventNames |-> IF e \in InheritedNames THEN "" ELSE 0]

\* Lists already in the store when the run starts.
InitDeviceLen == 49
InitRecentLen == 99
InitUniqueLen == 999

\* if (deviceEvents.length > 50) deviceEvents.length = 50
MaxDeviceEvents == 50
\* if (recentEvents.length > 100) recentEvents.length = 100
MaxRecent == 100
\* if (stats.uniqueDevices.length > 1000) ... slice(-1000)
MaxUniqueDevices == 1000

\* deviceId.substring(0, 8)
First8(d) ==
  CASE d = "devicA00-1234" -> "devicA00"
    [] d = "devicB00-5678" -> "devicB00"
    [] OTHER -> d

Redact_Whole(d) == [prefix |-> d, suffix |-> "..."]

\* data.deviceId.substring(0, 8) + '...'
Redact(d) == [prefix |-> First8(d), suffix |-> "..."]

\* A device first seen before the run starts.
OldDevice(i) == ToString(i)

DeviceEvent(eventName, timestamp, receivedAt) ==
  [eventName |-> eventName, timestamp |-> timestamp, receivedAt |-> receivedAt]

RecentEvent(eventName, deviceId, timestamp, receivedAt) ==
  [ eventName |-> eventName, deviceId |-> Redact(deviceId), timestamp |-> timestamp,
    receivedAt |-> receivedAt ]

Stats(totalEvents, uniqueDevices, eventCounts, lastUpdated) ==
  [ totalEvents |-> totalEvents, uniqueDevices |-> uniqueDevices,
    eventCounts |-> eventCounts, lastUpdated |-> lastUpdated ]

\* statsRaw ? JSON.parse(statsRaw) : { totalEvents: 0, uniqueDevices: [], eventCounts: {}, ... }
StatsRead(stored, now) ==
  IF stored.exists THEN stored.val ELSE Stats(0, <<>>, NoCounts, now)

\* data.timestamp || now   (0 stands for an absent timestamp)
TimestampOr(timestamp, now) == IF timestamp # 0 THEN timestamp ELSE now

Contains(s, x) == \E i \in 1..Len(s) : s[i] = x

\* slice(-n)
LastN(s, n) == IF Len(s) > n THEN SubSeq(s, Len(s) - n + 1, Len(s)) ELSE s

DeviceUnshift_NoTruncate(events, e) == <<e>> \o events

\* deviceEvents.unshift(...); if (deviceEvents.length > 50) deviceEvents.length = 50
DeviceUnshift(events, e) == Take(<<e>> \o events, MaxDeviceEvents)

\* recentEvents.unshift(...); if (recentEvents.length > 100) recentEvents.length = 100
RecentUnshift(events, e) == Take(<<e>> \o events, MaxRecent)

UniquePush_NoCheck(devices, d) == LastN(Append(devices, d), MaxUniqueDevices)

\* if (!uniqueDevices.includes(id)) { push(id); if (length > 1000) slice(-1000) }
UniquePush(devices, d) ==
  IF Contains(devices, d) THEN devices
  ELSE LastN(Append(devices, d), MaxUniqueDevices)

\* (stats.eventCounts[name] || 0) + 1.  For an inherited name without a
\* member of its own the read yields the member of Object.prototype, a
\* function: it is truthy, and function + 1 is the concatenation of its
\* source text and "1"; the text is stored, and the next event of that name
\* appends another "1" to it.
CountPlusOne(count, name) ==
  IF name \in InheritedNames
    THEN (IF count = "" THEN "function Object() { [native code] }" ELSE count) \o "1"
    ELSE count + 1

\* totalEvents++, eventCounts[name] = (eventCounts[name] || 0) + 1, uniqueDevices, lastUpdated
StatsUpdate(stats, eventName, deviceId, now) ==
  Stats(stats.totalEvents + 1,
        UniquePush(stats.uniqueDevices, deviceId),
        [stats.eventCounts EXCEPT ![eventName] = CountPlusOne(@, eventName)],
        now)

EmptyStats == Stats(0, <<>>, NoCounts, 0)

IdleTask ==
  [ pc |-> "idle", json |-> TRUE, eventName |-> "", deviceId |-> "", timestamp |-> 0,
    now |-> 0, status |-> 0, devEvents |-> <<>>, stats |-> EmptyStats, recent |-> <<>> ]

IdleAna == [t \in AnaTasks |-> IdleTask]

Invalid_DeviceOnly(json, eventName, deviceId) == ~json \/ deviceId = ""

\* request.json() threw, or !data.eventName || !data.deviceId   ("" stands
\* for an absent or empty member)
Invalid(json, eventName, deviceId) == ~json \/ eventName = "" \/ deviceId = ""

\* onRequestPost of the ingestor up to its response: request.json(), the
\* required-field check, the 200 and the background task handed to waitUntil
\* (the tasks are numbered in the order they arrive)
AnaPost(t) ==
  /\ ana[t].pc = "idle"
  /\ t = "t2" => ana["t1"].pc # "idle"
  /\ \E json \in BOOLEAN, eventName \in EventNames \cup {""}, deviceId \in DeviceIds \cup {""},
        timestamp \in {0, 500} :
       /\ ~json => (eventName = "" /\ deviceId = "" /\ timestamp = 0)
       /\ (eventName = "" \/ deviceId = "") => timestamp = 0
       /\ clock' = clock + 1
       /\ ana' = [ana EXCEPT ![t] =
            [ ana[t] EXCEPT !.json = json, !.eventName = eventName, !.deviceId = deviceId,
                            !.timestamp = timestamp, !.now = clock + 1,
                            !.status = IF Invalid(json, eventName, deviceId)
                                         THEN 400 ELSE 200,
                            !.pc = IF Invalid(json, eventName, deviceId)
                                     THEN "done" ELSE "devget" ] ]
  /\ UNCHANGED <<kv, mode, req, seqlog, adm>>

\* const deviceRaw = await kv.get(deviceKey)
DevGet(t) ==
  /\ ana[t].pc = "devget"
  /\ ana' = [ana EXCEPT ![t].pc = "devput",
                        ![t].devEvents = LogsRead(kv[KeyDevice(ana[t].deviceId)])]
  /\ UNCHANGED <<kv, mode, clock, req, seqlog, adm>>

\* deviceEvents.unshift(...); truncate; await kv.put(deviceKey, ...)
DevPut(t) ==
  /\ ana[t].pc = "devput"
  /\ LET a == ana[t]
         e == DeviceEvent(a.eventName, TimestampOr(a.timestamp, a.now), a.now)
     IN kv' = [kv EXCEPT ![KeyDevice(a.deviceId)] = Stored(DeviceUnshift(a.devEvents, e))]
  /\ ana' = [ana EXCEPT ![t].pc = "statsget", ![t].devEvents = <<>>]
  /\ UNCHANGED <<mode, clock, req, seqlog, adm>>

\* const statsRaw = await kv.get('appwallet:stats')
StatsGet(t) ==
  /\ ana[t].pc = "statsget"
  /\ ana' = [ana EXCEPT ![t].pc = "statsput",
                        ![t].stats = StatsRead(kv[KeyStats], ana[t].now)]
  /\ UNCHANGED <<kv, mode, clock, req, seqlog, adm>>

\* the counters, the unique devices; await kv.put('appwallet:stats', ...)
StatsPut(t) ==
  /\ ana[t].pc = "statsput"
  /\ LET a == ana[t]
     IN kv' = [kv EXCEPT ![KeyStats] =
                 Stored(StatsUpdate(a.stats, a.eventName, a.deviceId, a.now))]
  /\ ana' = [ana EXCEPT ![t].pc = "recentget", ![t].stats = EmptyStats]
  /\ UNCHANGED <<mode, clock, req, seqlog, adm>>

\* const recentRaw = await kv.get('appwallet:recent')
RecentGet(t) ==
  /\ ana[t].pc = "recentget"
  /\ ana' = [ana EXCEPT ![t].pc = "recentput", ![t].recent = LogsRead(kv[KeyRecent])]
  /\ UNCHANGED <<kv, mode, clock, req, seqlog, adm>>

\* recentEvents.unshift(...); truncate; await kv.put('appwallet:recent', ...)
RecentPut(t) ==
  /\ ana[t].pc = "recentput"
  /\ LET a == ana[t]
         e == RecentEvent(a.eventName, a.deviceId, TimestampOr(a.timestamp, a.now), a.now)
     IN kv' = [kv EXCEPT ![KeyRecent] = Stored(RecentUnshift(a.recent, e))]
  /\ ana' = [ana EXCEPT ![t].pc = "done", ![t].recent = <<>>]
  /\ UNCHANGED <<mode, clock, req, seqlog, adm>>

-----------------------------------------------------------------------------
(* Admin surface *)

\* How many admin calls are made.
MaxAdminCalls == 3

\* The JSON body of an admin POST or PUT.  hasIsActive: whether the body has
\* an isActive member at all.
AdminBody(businessName, secretKey, provider, hasIsActive, isActive) ==
  [ businessName |-> businessName, secretKey |-> secretKey, provider |-> provider,
    hasIsActive |-> hasIsActive, isActive |-> isActive ]

AdminBodies ==
  { AdminBody(b, k, p, h, a) :
      b \in {"Biz2", Undef}, k \in {"K2", Undef}, p \in {"custom_http", Undef},
      h \in BOOLEAN, a \in BOOLEAN } \ { AdminBody(b, k, p, FALSE, TRUE) :
      b \in {"Biz2", Undef}, k \in {"K2", Undef}, p \in {"custom_http", Undef} }

\* body.isActive !== undefined ? body.isActive : true
BodyIsActive(body) == IF body.hasIsActive THEN body.isActive ELSE TRUE

\* webhookData of the admin POST
WebhookData(body, now) ==
  [ businessName |-> body.businessName, secretKey |-> body.secretKey,
    provider |-> body.provider, providerConfig |-> "{}",
    isActive |-> BodyIsActive(body), createdAt |-> now,
    lastEventAt |-> 0, lastEventType |-> Undef, lastEventStatus |-> Undef ]

UpdateData_Replace(current, body) ==
  [k \in DOMAIN current \cup {"providerConfig"} |->
     CASE k = "businessName" -> body.businessName
       [] k = "provider" -> body.provider
       [] k = "providerConfig" -> "{}"
       [] k = "isActive" -> BodyIsActive(body)
       [] k = "secretKey" -> body.secretKey
       [] OTHER -> current[k]]

\* updateData of the admin PUT: { ...current, businessName, provider,
\* providerConfig, isActive } and the secretKey only when one is sent
UpdateData(current, body) ==
  [k \in DOMAIN current \cup {"providerConfig"} |->
     CASE k = "businessName" -> body.businessName
       [] k = "provider" -> body.provider
       [] k = "providerConfig" -> "{}"
       [] k = "isActive" -> BodyIsActive(body)
       [] k = "secretKey" -> IF Truthy(body.secretKey) THEN body.secretKey ELSE current[k]
       [] OTHER -> current[k]]

\* { id, ...data }
WithId(id, data) == [k \in {"id"} \cup DOMAIN data |-> IF k = "id" THEN id ELSE data[k]]

Omit_Nothing(obj, keys) == obj

\* JSON.stringify({ ...obj, key: undefined }): a member whose value is
\* undefined is left out of the text
Omit(obj, keys) == [k \in DOMAIN obj \ keys |-> obj[k]]

\* x || null, for a string
OrNull(x) == IF Truthy(x) THEN x ELSE "null"

AdminResp(status, body) == [status |-> status, body |-> body]

TextBody(text) == [text |-> text]

\* the summary of the admin GET and of each element of the admin list
AdminSummary(id, data) ==
  [ id |-> id, businessName |-> data.businessName,
    provider |-> ProviderNameOf(data), isActive |-> data.isActive,
    lastEventAt |-> data.lastEventAt, lastEventType |-> OrNull(data.lastEventType),
    lastEventStatus |-> OrNull(data.lastEventStatus) ]

\* the body of the diagnostic GET /api/v1/webhook/{id}
DiagnosticBody(id, config) ==
  [ status |-> "ok", webhookId |-> id, businessName |-> config.businessName,
    provider |-> config.provider, isActive |-> config.isActive,
    lastEventAt |-> config.lastEventAt, lastEventType |-> OrNull(config.lastEventType) ]

\* raw ? JSON.parse(raw) : []   (webhooks:index)
IndexRead(stored) == IF stored.exists THEN stored.val ELSE <<>>

IdleAdm ==
  [ pc |-> "idle", op |-> "none", id |-> "w1", calls |-> 0, now |-> 0,
    body |-> AdminBody(Undef, Undef, Undef, FALSE, FALSE), current |-> Absent,
    index |-> <<>>, resp |-> AdminResp(0, TextBody("")),
    made |-> [i \in Ids |-> Absent], pending |-> {} ]

\* admin POST up to its first store write: request.json(), the required
\* fields, generateId(), kv.put(`webhook:${id}`, webhookData)
AdminPost ==
  /\ adm.pc = "idle" /\ adm.calls < MaxAdminCalls
  /\ \E body \in AdminBodies, id \in Ids :
       LET call == [adm EXCEPT !.op = "create", !.id = id, !.body = body,
                               !.calls = adm.calls + 1, !.now = clock + 1]
       IN IF ~Truthy(body.businessName) \/ ~Truthy(body.secretKey) \/ ~Truthy(body.provider)
            THEN /\ adm' = [call EXCEPT !.resp = AdminResp(400, TextBody("Faltan campos requeridos"))]
                 /\ kv' = kv
            ELSE /\ adm' = [call EXCEPT !.pc = "post_index_get"]
                 /\ kv' = [kv EXCEPT ![KeyWebhook(id)] = Stored(WebhookData(body, clock + 1))]
  /\ clock' = clock + 1
  /\ UNCHANGED <<mode, req, seqlog, ana>>

\* admin POST: const index = await getIndex(kv)
AdminPostIndexGet ==
  /\ adm.pc = "post_index_get"
  /\ adm' = [adm EXCEPT !.pc = "post_index_save", !.index = IndexRead(kv[KeyIndex])]
  /\ UNCHANGED <<kv, mode, clock, req, seqlog, ana>>

\* admin POST: index.push(id); await saveIndex(kv, index); the 201 response
AdminPostIndexSave ==
  /\ adm.pc = "post_index_save"
  /\ kv' = [kv EXCEPT ![KeyIndex] = Stored(Append(adm.index, adm.id))]
  /\ adm' = [adm EXCEPT
       !.pc = "idle", !.index = <<>>,
       !.made = [adm.made EXCEPT ![adm.id] = Stored(adm.body)],
       !.resp = AdminResp(201, Omit(WithId(adm.id, WebhookData(adm.body, adm.now)),
                                    {"secretKey"}))]
  /\ UNCHANGED <<mode, clock, req, seqlog, ana>>

\* A whole admin POST of another client, run between two store calls of the
\* admin session: the same handler with a valid body and the id generateId()
\* returned, an id that is not in use; kv.put(`webhook:${id}`, ...),
\* getIndex, index.push(id), saveIndex.
ConcurrentAdminPost ==
  /\ \E body \in AdminBodies, id \in Ids :
       /\ Truthy(body.businessName) /\ Truthy(body.secretKey) /\ Truthy(body.provider)
       /\ ~kv[KeyWebhook(id)].exists /\ ~Contains(IndexRead(kv[KeyIndex]), id)
       /\ kv' = [kv EXCEPT ![KeyWebhook(id)] = Stored(WebhookData(body, clock + 1)),
                           ![KeyIndex] = Stored(Append(IndexRead(kv[KeyIndex]), id))]
  /\ clock' = clock + 1
  /\ UNCHANGED <<mode, req, seqlog, ana, adm>>

\* admin PUT /admin/webhooks/:id up to its store read
AdminPutGet ==
  /\ adm.pc = "idle" /\ adm.calls < MaxAdminCalls
  /\ \E body \in AdminBodies, id \in Ids :
       LET call == [adm EXCEPT !.op = "update", !.id = id, !.body = body,
                               !.calls = adm.calls + 1]
       IN adm' =
            IF ~Truthy(body.businessName) \/ ~Truthy(body.provider)
              THEN [call EXCEPT !.resp = AdminResp(400, TextBody("Faltan campos requeridos"))]
            ELSE IF ~kv[KeyWebhook(id)].exists
              THEN [call EXCEPT !.resp = AdminResp(404, TextBody("Webhook no encontrado."))]
            ELSE [call EXCEPT !.pc = "put_put", !.current = kv[KeyWebhook(id)]]
  /\ UNCHANGED <<kv, mode, clock, req, seqlog, ana>>

\* admin PUT: await kv.put(`webhook:${id}`, updateData); the 200 response
AdminPutPut ==
  /\ adm.pc = "put_put"
  /\ LET updateData == UpdateData(adm.current.val, adm.body)
     IN /\ kv' = [kv EXCEPT ![KeyWebhook(adm.id)] = Stored(updateData)]
        /\ adm' = [adm EXCEPT
             !.pc = "idle", !.current = Absent,
             !.made = [adm.made EXCEPT ![adm.id] = Stored(adm.body)],
             !.resp = AdminResp(200, Omit(WithId(adm.id, updateData), {"secretKey"}))]
  /\ UNCHANGED <<mode, clock, req, seqlog, ana>>

\* admin GET /admin/webhooks/:id
AdminGet ==
  /\ adm.pc = "idle" /\ adm.calls < MaxAdminCalls
  /\ \E id \in Ids :
       adm' = [adm EXCEPT
         !.op = "read", !.id = id, !.calls = adm.calls + 1,
         !.resp = IF kv[KeyWebhook(id)].exists
                    THEN AdminResp(200, AdminSummary(id, kv[KeyWebhook(id)].val))
                    ELSE AdminResp(404, TextBody("Webhook no encontrado."))]
  /\ UNCHANGED <<kv, mode, clock, req, seqlog, ana>>

\* The ids of the index whose config exists, in index order.
RECURSIVE Listed(_)
Listed(index) ==
  IF index = <<>> THEN <<>>
  ELSE IF kv[KeyWebhook(Head(index))].exists
    THEN <<AdminSummary(Head(index), kv[KeyWebhook(Head(index))].val)>> \o Listed(Tail(index))
  ELSE Listed(Tail(index))

\* admin GET /admin/webhooks
AdminList ==
  /\ adm.pc = "idle" /\ adm.calls < MaxAdminCalls
  /\ adm' = [adm EXCEPT
       !.op = "list", !.calls = adm.calls + 1,
       !.resp = AdminResp(200, [list |-> Listed(IndexRead(kv[KeyIndex]))])]
  /\ UNCHANGED <<kv, mode, clock, req, seqlog, ana>>

\* diagnostic GET /api/v1/webhook/{id}
DiagnosticGet ==
  /\ adm.pc = "idle" /\ adm.calls < MaxAdminCalls
  /\ \E id \in Ids :
       adm' = [adm EXCEPT
         !.op = "diagnostic", !.id = id, !.calls = adm.calls + 1,
         !.resp = IF kv[KeyWebhook(id)].exists
                    THEN AdminResp(200, DiagnosticBody(id, kv[KeyWebhook(id)].val))
                    ELSE AdminResp(404, [status |-> "error", message |-> "Webhook no encontrado",
                                         webhookId |-> id])]
  /\ UNCHANGED <<kv, mode, clock, req, seqlog, ana>>

\* config of the admin POST /admin/appwallet
AppWalletConfig(body, now) ==
  [ isActive |-> BodyIsActive(body), provider |-> body.provider, providerConfig |-> "{}",
    businessName |-> "AppWallet Analytics", createdAt |-> now, updatedAt |-> now ]

\* admin POST /admin/appwallet: request.json(), the required provider,
\* kv.put('appwallet:config', config), the 201 response
AppWalletPost ==
  /\ adm.pc = "idle" /\ adm.calls < MaxAdminCalls
  /\ \E body \in AdminBodies :
       /\ ~Truthy(body.businessName) /\ ~Truthy(body.secretKey)
       /\ LET call == [adm EXCEPT !.op = "appwallet", !.body = body,
                                  !.calls = adm.calls + 1, !.now = clock + 1]
          IN IF ~Truthy(body.provider)
               THEN /\ adm' = [call EXCEPT !.resp = AdminResp(400, TextBody("Se requiere provider"))]
                    /\ kv' = kv
               ELSE /\ adm' = [call EXCEPT !.resp =
                         AdminResp(201, [AppWalletConfig(body, clock + 1)
                                           EXCEPT !.providerConfig = "***"])]
                    /\ kv' = [kv EXCEPT ![KeyAppConfig] = Stored(AppWalletConfig(body, clock + 1))]
  /\ clock' = clock + 1
  /\ UNCHANGED <<mode, req, seqlog, ana>>

\* admin DELETE /admin/appwallet up to its store calls: the keys to delete,
\* appwallet:config among them when the query has config=true
AppWalletDelete ==
  /\ adm.pc = "idle" /\ adm.calls < MaxAdminCalls
  /\ \E resetConfig \in BOOLEAN :
       adm' = [adm EXCEPT !.op = "appwallet reset", !.calls = adm.calls + 1,
                          !.pc = "reset",
                          !.pending = {KeyStats, KeyRecent, KeyAppLogs}
                                        \cup (IF resetConfig THEN {KeyAppConfig} ELSE {})]
  /\ UNCHANGED <<kv, mode, clock, req, seqlog, ana>>

\* admin DELETE /admin/appwallet: one kv.delete(key) of
\* Promise.all(toDelete.map(key => kv.delete(key))), in whatever order the
\* store completes them, and the 200 after the last
AppWalletDeleteKey ==
  /\ adm.pc = "reset"
  /\ \E k \in adm.pending :
       /\ kv' = [kv EXCEPT ![k] = Absent]
       /\ adm' = IF adm.pending = {k}
                   THEN [adm EXCEPT !.pc = "idle", !.pending = {},
                                    !.resp = AdminResp(200, TextBody("Analytics reseteados"))]
                   ELSE [adm EXCEPT !.pending = adm.pending \ {k}]
  /\ UNCHANGED <<mode, clock, req, seqlog, ana>>

\* The two onRequestDelete handlers of the admin surface.
DeleteHandlers == {"webhooks/[id].ts", "webhooks.ts"}

\* index.filter(i => i !== id)
IndexWithout(index, id) == SelectSeq(index, LAMBDA i : i # id)

\* admin DELETE up to its store read: const existing = await kv.get(`webhook:${id}`)
\* and the 404 of an unknown id
AdminDeleteGet ==
  /\ adm.pc = "idle" /\ adm.calls < MaxAdminCalls
  /\ \E id \in Ids, handler \in DeleteHandlers :
       LET call == [adm EXCEPT !.op = handler, !.id = id, !.calls = adm.calls + 1]
       IN adm' = IF kv[KeyWebhook(id)].exists
                   THEN [call EXCEPT !.pc = "del_config"]
                   ELSE [call EXCEPT !.resp = AdminResp(404, TextBody("Webhook no encontrado."))]
  /\ UNCHANGED <<kv, mode, clock, req, seqlog, ana>>

\* admin DELETE: await kv.delete(`webhook:${id}`)
AdminDeleteConfig ==
  /\ adm.pc = "del_config"
  /\ kv' = [kv EXCEPT ![KeyWebhook(adm.id)] = Absent]
  /\ adm' = [adm EXCEPT !.pc = "del_index_get"]
  /\ UNCHANGED <<mode, clock, req, seqlog, ana>>

\* admin DELETE: the read of webhooks:index
AdminDeleteIndexGet ==
  /\ adm.pc = "del_index_get"
  /\ adm' = [adm EXCEPT !.pc = "del_index_save", !.index = IndexRead(kv[KeyIndex])]
  /\ UNCHANGED <<kv, mode, clock, req, seqlog, ana>>

\* admin DELETE: the write of the filtered index; the handler of webhooks.ts
\* answers 200 here, the handler of webhooks/[id].ts goes on to the logs
AdminDeleteIndexSave ==
  /\ adm.pc = "del_index_save"
  /\ kv' = [kv EXCEPT ![KeyIndex] = Stored(IndexWithout(adm.index, adm.id))]
  /\ adm' = IF adm.op = "webhooks.ts"
              THEN [adm EXCEPT !.pc = "idle", !.index = <<>>,
                               !.made = [adm.made EXCEPT ![adm.id] = Absent],
                               !.resp = AdminResp(200, TextBody("Webhook eliminado correctamente."))]
              ELSE [adm EXCEPT !.pc = "del_logs", !.index = <<>>]
  /\ UNCHANGED <<mode, clock, req, seqlog, ana>>

\* admin DELETE of webhooks/[id].ts: await kv.delete(`logs:${id}`), then
\* the 200 response { deleted: true, id }
AdminDeleteLogs ==
  /\ adm.pc = "del_logs"
  /\ kv' = [kv EXCEPT ![KeyLogs(adm.id)] = Absent]
  /\ adm' = [adm EXCEPT !.pc = "idle",
                        !.made = [adm.made EXCEPT ![adm.id] = Absent],
                        !.resp = AdminResp(200, [deleted |-> TRUE, id |-> adm.id])]
  /\ UNCHANGED <<mode, clock, req, seqlog, ana>>

-----------------------------------------------------------------------------
(* Specifications *)

Init ==
  /\ mode \in {"bg", "sync"}
  /\ clock = 0
  /\ \E c \in ConfigTemplates, l \in {Absent, Stored(OldLogs(InitLogLen))} :
       kv = [EmptyStore EXCEPT ![KeyWebhook("w1")] = Stored(c), ![KeyLogs("w1")] = l]
  /\ req = [r \in Reqs |-> IdleReq]
  /\ seqlog = IdleSeqlog
  /\ ana = IdleAna
  /\ adm = IdleAdm

Next ==
  \E r \in Reqs :
    \/ Start(r)
    \/ Exec(r)
    \/ LogGet(r)
    \/ LogPut(r)
    \/ ConfigPutParallel(r)
    \/ ConfigPutThenRespond(r)
    \/ Fallback(r)

Spec == Init /\ [][Next]_vars

\* logEvent rejects: its kv.get or its kv.put failed.
\*   sync revision: the rejection reaches the outer catch
\*   bg revision, inside the task's try: the catch calls logEvent again
\*   bg revision, elsewhere (the exits' waitUntil(logEvent(...)), the logEvent
\*   of the task's catch): the promise handed to waitUntil rejects
LogEventFails(r) ==
  /\ req[r].pc \in {"logget", "logput"}
  /\ LET q == req[r]
         inTry == q.verdict = "pass" /\ q.executed /\ ~q.result.threw /\ q.next = "done"
     IN req' = [req EXCEPT ![r] =
          IF mode = "sync" THEN [q EXCEPT !.pc = "fallback", !.next = "failed"]
          ELSE IF inTry
            THEN [q EXCEPT !.pc = "logget", !.next = "caught",
                           !.entry = ThrownEntry(Threw("KV error"), q.ev,
                                                 ProviderNameOf(q.stored.val), q.now)]
          ELSE [q EXCEPT !.pc = IF q.cfgPending THEN "cfgwait" ELSE "done",
                         !.next = "rejected"] ]
  /\ UNCHANGED <<kv, mode, clock, seqlog, ana, adm>>

\* kv.put(`webhook:${id}`, ...) fails once logEvent has resolved.
\*   sync revision: the rejection reaches the outer catch
\*   bg revision: Promise.all rejects and the task's catch calls logEvent
ConfigPutFails(r) ==
  /\ \/ mode = "sync" /\ req[r].pc = "cfgput"
     \/ mode = "bg" /\ req[r].pc = "cfgwait" /\ req[r].next = "done"
  /\ LET q == req[r]
     IN req' = [req EXCEPT ![r] =
          IF mode = "sync" THEN [q EXCEPT !.pc = "fallback", !.next = "failed"]
          ELSE [q EXCEPT !.pc = "logget", !.next = "caught", !.cfgPending = FALSE,
                         !.entry = ThrownEntry(Threw("KV error"), q.ev,
                                               ProviderNameOf(q.stored.val), q.now)] ]
  /\ UNCHANGED <<kv, mode, clock, seqlog, ana, adm>>

\* sync revision, outer catch: the kv.put of the system entry fails, the
\* inner catch swallows it, then 500.
FallbackFails(r) ==
  /\ req[r].pc = "fallback"
  /\ req' = [req EXCEPT ![r].pc = "done", ![r].resp = RespInternal, ![r].next = "unlogged"]
  /\ UNCHANGED <<kv, mode, clock, seqlog, ana, adm>>

\* The dispatcher over a store whose calls may fail.
NextFault ==
  \E r \in Reqs :
    \/ Start(r)
    \/ Exec(r)
    \/ LogGet(r)
    \/ LogPut(r)
    \/ ConfigPutParallel(r)
    \/ ConfigPutThenRespond(r)
    \/ Fallback(r)
    \/ LogEventFails(r)
    \/ ConfigPutFails(r)
    \/ FallbackFails(r)

\* What a request does after onRequestPost's checks: the awaited calls of the
\* handler and of the task it handed to waitUntil.
Run(r) ==
  \/ Exec(r)
  \/ LogGet(r)
  \/ LogPut(r)
  \/ ConfigPutParallel(r)
  \/ ConfigPutThenRespond(r)
  \/ Fallback(r)

\* An active custom_http config with a log one short of its cap.
InitLive ==
  /\ mode \in {"bg", "sync"}
  /\ clock = 0
  /\ kv = [EmptyStore EXCEPT ![KeyWebhook("w1")] = Stored(Config("custom_http", TRUE)),
                             ![KeyLogs("w1")] = Stored(OldLogs(InitLogLen))]
  /\ req = [r \in Reqs |-> IdleReq]
  /\ seqlog = IdleSeqlog
  /\ ana = IdleAna
  /\ adm = IdleAdm

\* The execution context is kept alive until the handler has returned and
\* every promise handed to waitUntil has settled: a request that can take a
\* step eventually takes it.
SpecLive == InitLive /\ [][Next]_vars /\ \A r \in Reqs : WF_vars(Run(r))

SpecFault == InitLive /\ [][NextFault]_vars

\* The admin surface and the diagnostic endpoint over a store that is empty
\* or holds one config written before.
InitAdmin ==
  /\ mode = "bg"
  /\ clock = 0
  /\ kv \in { EmptyStore,
              [EmptyStore EXCEPT ![KeyWebhook("w1")] = Stored(Config(Undef, FALSE)),
                                 ![KeyIndex] = Stored(<<"w1">>)] }
  /\ req = [r \in Reqs |-> IdleReq]
  /\ seqlog = IdleSeqlog
  /\ ana = IdleAna
  /\ adm = IdleAdm

NextAdmin ==
  \/ AdminPost
  \/ AdminPostIndexGet
  \/ AdminPostIndexSave
  \/ AdminPutGet
  \/ AdminPutPut
  \/ AdminGet
  \/ AdminList
  \/ DiagnosticGet

SpecAdmin == InitAdmin /\ [][NextAdmin]_vars

\* The store with no log yet, and logEvent run MaxSeqEvents times in a row.
InitSeq ==
  /\ mode = "bg"
  /\ clock = 0
  /\ kv = [EmptyStore EXCEPT ![KeyWebhook("w1")] = Stored(Config("custom_http", TRUE))]
  /\ req = [r \in Reqs |-> IdleReq]
  /\ seqlog = [IdleSeqlog EXCEPT !.pc = "get"]
  /\ ana = IdleAna
  /\ adm = IdleAdm

NextSeq == SeqLogGet \/ SeqLogPut

SpecSeq == InitSeq /\ [][NextSeq]_vars

OldDeviceEvents(n) == [i \in 1..n |-> DeviceEvent("app_open", 0 - i, 0 - i)]

OldRecent(n) == [i \in 1..n |-> RecentEvent("app_open", "devicA00-1234", 0 - i, 0 - i)]

OldStats(n) ==
  Stats(n + n, [i \in 1..n |-> OldDevice(i)],
        [e \in EventNames |-> IF e \in {"app_open", "pass_added"} THEN n ELSE NoCounts[e]], 0)

\* The analytics keys either absent or holding lists one short of their caps.
InitAna ==
  /\ mode = "bg"
  /\ clock = 0
  /\ kv \in { EmptyStore,
              [EmptyStore EXCEPT
                 ![KeyDevice("devicA00-1234")] = Stored(OldDeviceEvents(InitDeviceLen)),
                 ![KeyRecent] = Stored(OldRecent(InitRecentLen)),
                 ![KeyStats] = Stored(OldStats(InitUniqueLen))] }
  /\ req = [r \in Reqs |-> IdleReq]
  /\ seqlog = IdleSeqlog
  /\ ana = IdleAna
  /\ adm = IdleAdm

NextAna ==
  \E t \in AnaTasks :
    \/ AnaPost(t)
    \/ DevGet(t)
    \/ DevPut(t)
    \/ StatsGet(t)
    \/ StatsPut(t)
    \/ RecentGet(t)
    \/ RecentPut(t)

SpecAna == InitAna /\ [][NextAna]_vars

\* Analytics events processed one at a time: an event is posted only once
\* the background task of the one before has completed.
AnaPostAfter(t) ==
  /\ \A u \in AnaTasks : ana[u].pc \in {"idle", "done"}
  /\ AnaPost(t)

NextAnaSeq ==
  \E t \in AnaTasks :
    \/ AnaPostAfter(t)
    \/ DevGet(t)
    \/ DevPut(t)
    \/ StatsGet(t)
    \/ StatsPut(t)
    \/ RecentGet(t)
    \/ RecentPut(t)

SpecAnaSeq == InitAna /\ [][NextAnaSeq]_vars

\* The ingestor, one event at a time, beside the admin who configures the
\* forwarding of analytics.
NextForward ==
  \/ AppWalletPost
  \/ NextAnaSeq

\* The analytics keys absent, and an admin who makes one more call.
InitForward ==
  /\ mode = "bg"
  /\ clock = 0
  /\ kv = EmptyStore
  /\ req = [r \in Reqs |-> IdleReq]
  /\ seqlog = IdleSeqlog
  /\ ana = IdleAna
  /\ adm = [IdleAdm EXCEPT !.calls = MaxAdminCalls - 1]

SpecForward == InitForward /\ [][NextForward]_vars

\* One event delivered to a webhook whose stored config has any of the
\* provider names and either shape.
InitOne ==
  /\ mode \in {"bg", "sync"}
  /\ clock = 0
  /\ \E c \in StoredConfigs :
       kv = [EmptyStore EXCEPT ![KeyWebhook("w1")] = Stored(c),
                               ![KeyLogs("w1")] = Stored(OldLogs(InitLogLen))]
  /\ req = [r \in Reqs |-> IdleReq]
  /\ seqlog = IdleSeqlog
  /\ ana = IdleAna
  /\ adm = IdleAdm

SpecOne == InitOne /\ [][Start("r1") \/ Run("r1")]_vars

\* Webhooks created and deleted by the admin, over a store that holds one
\* webhook with its index entry and its log.
InitDelete ==
  /\ mode = "bg"
  /\ clock = 0
  /\ kv = [EmptyStore EXCEPT ![KeyWebhook("w1")] = Stored(Config("custom_http", TRUE)),
                             ![KeyIndex] = Stored(<<"w1">>),
                             ![KeyLogs("w1")] = Stored(OldLogs(InitLogLen))]
  /\ req = [r \in Reqs |-> IdleReq]
  /\ seqlog = IdleSeqlog
  /\ ana = IdleAna
  /\ adm = IdleAdm

NextDelete ==
  \/ AdminPost
  \/ AdminPostIndexGet
  \/ AdminPostIndexSave
  \/ AdminDeleteGet
  \/ AdminDeleteConfig
  \/ AdminDeleteIndexGet
  \/ AdminDeleteIndexSave
  \/ AdminDeleteLogs

SpecDelete == InitDelete /\ [][NextDelete]_vars

\* One event delivered while the admin updates webhooks: the dispatcher's
\* awaited calls interleave with the two store calls of the admin PUT.
NextRace ==
  \/ Start("r1")
  \/ Run("r1")
  \/ AdminPutGet
  \/ AdminPutPut

\* An active custom_http config, and an admin who makes one more call.
InitRace ==
  /\ mode \in {"bg", "sync"}
  /\ clock = 0
  /\ kv = [EmptyStore EXCEPT ![KeyWebhook("w1")] = Stored(Config("custom_http", TRUE)),
                             ![KeyIndex] = Stored(<<"w1">>),
                             ![KeyLogs("w1")] = Stored(OldLogs(InitLogLen))]
  /\ req = [r \in Reqs |-> IdleReq]
  /\ seqlog = IdleSeqlog
  /\ ana = IdleAna
  /\ adm = [IdleAdm EXCEPT !.calls = MaxAdminCalls - 1]

SpecRace == InitRace /\ [][NextRace]_vars

-----------------------------------------------------------------------------
(* Vocabulary of the dispatcher claims, in terms of a request's inputs, the *)
(* config it read and what it did.                                          *)

Started(q) == q.pc # "idle"

Finished(q) == q.pc = "done"

Responded(q) == q.resp # NoResp

ExistingWebhook(q) == q.stored.exists

BodyParses(q) == ~JsonParse(q.raw).throws

Handshake(q) == BodyParses(q) /\ IsVerify(JsonParse(q.raw))

TypedHandshake(q) == BodyParses(q) /\ JsonParse(q.raw).type = "webhook.verify"

\* The header is "sha1=" + hex(HMAC-SHA1(secretKey, raw body)).
CorrectlySigned(q) ==
  q.header.present /\ q.header.text = Digest(q.stored.val.secretKey, q.raw)

\* No signature provided: the header is absent or empty.
Unsigned(q) == ~q.header.present \/ q.header = EmptyHeader

Stages(q) == {q.passed[i] : i \in 1..Len(q.passed)}

LoggedOnce(q, status, message) ==
  /\ Len(q.logged) = 1
  /\ q.logged[1].status = status
  /\ q.logged[1].message = message
  /\ q.logged[1].time = q.now

-----------------------------------------------------------------------------
(* C1 *)

-----------------------------------------------------------------------------
(* C2 *)

InactiveRead(q) == ExistingWebhook(q) /\ ~q.stored.val.isActive

\* C2 as stated: every non-handshake POST to an inactive webhook, whatever its
\* signature header, is answered 403 and logged 'blocked'.
C2_AsStated ==
  \A r \in Reqs :
    LET q == req[r]
    IN (Finished(q) /\ InactiveRead(q) /\ BodyParses(q) /\ ~Handshake(q))
         => /\ q.resp.status = 403
            /\ \E i \in 1..Len(q.logged) : q.logged[i].status = "blocked"
            /\ ~q.executed

\* C2, amended: for a config read with isActive = false, no POST causes a
\* provider execute call; a non-handshake event carrying the correct signature
\* is answered 403 'inactivo' and its one log entry has status 'blocked'; one
\* with no signature is answered 401 and one with a wrong signature 403
\* 'Invalid signature', each logged with status 'error', not 'blocked'.
C2_InactiveBlocked ==
  \A r \in Reqs :
    LET q == req[r]
    IN (Started(q) /\ InactiveRead(q)) =>
         /\ ~q.executed
         /\ (BodyParses(q) /\ ~Handshake(q) /\ Responded(q)) =>
              q.resp = IF Unsigned(q) THEN RespNoSignature
                       ELSE IF CorrectlySigned(q) THEN RespInactive
                       ELSE RespInvalidSignature
         /\ (BodyParses(q) /\ ~Handshake(q) /\ Finished(q)) =>
              /\ Responded(q)
              /\ IF Unsigned(q) THEN LoggedOnce(q, "error", "Sin firma HMAC")
                 ELSE IF CorrectlySigned(q) THEN LoggedOnce(q, "blocked", "Webhook inactivo")
                 ELSE LoggedOnce(q, "error", "Firma HMAC invalida")

\* A correctly signed event on an inactive webhook, answered and logged.
C2_Witness ==
  \E r \in Reqs :
    /\ Finished(req[r]) /\ InactiveRead(req[r]) /\ CorrectlySigned(req[r])
    /\ req[r].resp = RespInactive
    /\ LoggedOnce(req[r], "blocked", "Webhook inactivo")
    /\ kv[KeyLogs(req[r].id)].exists
    /\ kv[KeyLogs(req[r].id)].val[1].status = "blocked"

-----------------------------------------------------------------------------
(* C3 *)

\* C3: every POST with type 'webhook.verify' to an existing webhook is answered
\* 200, text/plain, with data.token as the body, whatever the header, the
\* secret, the active flag and the rest of the body (a body with no data field
\* included).
C3_HandshakeEcho ==
  \A r \in Reqs :
    LET q == req[r]
    IN (Finished(q) /\ ExistingWebhook(q) /\ TypedHandshake(q))
         => /\ q.resp.status = 200
            /\ q.resp.contentType = "text/plain"
            /\ Truthy(JsonParse(q.raw).token) => q.resp.body = JsonParse(q.raw).token

-----------------------------------------------------------------------------
(* C4 *)

\* C4: a provider's execute is called only after the config was found, the
\* signature matched the HMAC of the raw body, the config read was active and
\* the provider name resolved, in this order; a request answered 404, 401, 403
\* or 400 never has a provider execute call.
C4_ExecuteOnlyAfterChecks ==
  \A r \in Reqs :
    LET q == req[r]
    IN /\ q.executed =>
            /\ q.passed = <<"config", "signature", "active", "provider", "execute">>
            /\ ExistingWebhook(q)
            /\ CorrectlySigned(q)
            /\ q.stored.val.isActive
            /\ GetProvider(ProviderNameOf(q.stored.val)) # NotFound
       /\ q.resp.status \in {404, 401, 403, 400} => ~q.executed /\ q.pc # "exec"

\* A request whose provider was executed, beside one that was turned away.
C4_Witness ==
  \E r1, r2 \in Reqs :
    /\ req[r1].executed /\ Finished(req[r1])
    /\ Finished(req[r2]) /\ req[r2].resp.status \in {401, 403, 400}

-----------------------------------------------------------------------------
(* C5 *)

\* C5: a POST to an id with no webhook:{id} record is answered 404 and writes
\* nothing: no log entry, no key put or deleted.
C5_UnknownIdNoWrites ==
  \A r \in Reqs :
    LET q == req[r]
    IN (Started(q) /\ ~ExistingWebhook(q)) =>
         /\ Finished(q)
         /\ q.resp = RespNotFound
         /\ q.writes = {}
         /\ q.logged = <<>>
         /\ ~kv[KeyLogs(q.id)].exists
         /\ ~kv[KeyWebhook(q.id)].exists

\* A signed event sent to the unknown id.
C5_Witness ==
  \E r \in Reqs :
    /\ Finished(req[r]) /\ ~ExistingWebhook(req[r]) /\ req[r].id = "w2"
    /\ req[r].raw = "{type:pass.updated,data:{passSerialNumber:S1}}"
    /\ req[r].header.present
    /\ req[r].resp.status = 404

-----------------------------------------------------------------------------
(* C6 *)

-----------------------------------------------------------------------------
(* C7 *)

\* C7: in every reachable state the list under logs:{id} has at most 10
\* entries, for every id, in every interleaving of requests, the sync
\* revision's fallback write included.
C7_LogsBounded ==
  \A id \in Ids : kv[KeyLogs(id)].exists => Len(kv[KeyLogs(id)].val) <= MaxLogs

\* Two requests have logged to the same id, the later on a list that was full.
C7_Witness ==
  \E r1, r2 \in Reqs :
    /\ r1 # r2 /\ req[r1].id = req[r2].id
    /\ Finished(req[r1]) /\ Finished(req[r2])
    /\ Len(req[r1].logged) = 1 /\ Len(req[r2].logged) = 1
    /\ Len(req[r2].logs) = MaxLogs
    /\ Len(kv[KeyLogs(req[r2].id)].val) = MaxLogs
    /\ kv[KeyLogs(req[r2].id)].val[1] = req[r2].logged[1]

-----------------------------------------------------------------------------
(* C10 *)

PassesAllChecks(q) ==
  /\ ExistingWebhook(q) /\ BodyParses(q) /\ ~Handshake(q) /\ CorrectlySigned(q)
  /\ q.stored.val.isActive
  /\ GetProvider(ProviderNameOf(q.stored.val)) # NotFound

\* C10: in the respond-then-process revision a correctly signed event for an
\* active config with a resolvable provider has its 200 'accepted' response from
\* the moment the checks pass, before the provider has answered, and keeps it
\* whether the provider succeeds, returns success:false or throws; when the
\* provider returns success:false the background task's log entry has status
\* 'error' and the provider's message.
C10_AcceptedWhateverTheProvider ==
  \A r \in Reqs :
    LET q == req[r]
    IN (mode = "bg" /\ Started(q) /\ PassesAllChecks(q)) =>
         /\ q.resp = RespAccepted
         /\ (Finished(q) /\ ~q.result.threw /\ ~q.result.success)
              => LoggedOnce(q, "error", q.result.message)

\* custom_http, downstream 500: accepted with 200, logged as an error.
C10_Witness ==
  \E r \in Reqs :
    /\ mode = "bg" /\ Finished(req[r]) /\ PassesAllChecks(req[r])
    /\ ProviderNameOf(req[r].stored.val) = "custom_http"
    /\ req[r].executed /\ req[r].result = Result(FALSE, "HTTP 500")
    /\ req[r].resp.status = 200
    /\ LoggedOnce(req[r], "error", "HTTP 500")

-----------------------------------------------------------------------------
(* Claims about the log ring buffer and the analytics store *)

Min(a, b) == IF a < b THEN a ELSE b

\* The last k entries of hist, newest first.
LastReversed(hist, k) == [i \in 1..k |-> hist[Len(hist) - i + 1]]

\* C8: when n events of one webhook are logged one after another, each
\* logEvent completing before the next starts, the stored log is the last
\* min(n, 10) entries in reverse order of insertion.
C8_SequentialLog ==
  seqlog.pc = "get" =>
    LET n == Len(seqlog.hist)
        stored == kv[KeyLogs("w1")]
    IN /\ stored.exists <=> n > 0
       /\ LogsRead(stored) = LastReversed(seqlog.hist, Min(n, MaxLogs))

\* Eleven events logged: ten entries stored, the 11th first, the first evicted.
C8_Witness ==
  /\ seqlog.pc = "get"
  /\ Len(seqlog.hist) = MaxLogs + 1
  /\ Len(LogsRead(kv[KeyLogs("w1")])) = MaxLogs
  /\ Head(LogsRead(kv[KeyLogs("w1")])) = seqlog.hist[MaxLogs + 1]
  /\ ~Contains(LogsRead(kv[KeyLogs("w1")]), seqlog.hist[1])

UniqueDevices == StatsRead(kv[KeyStats], 0).uniqueDevices

AnalyticsSizes ==
  /\ \A d \in DeviceIds : Len(LogsRead(kv[KeyDevice(d)])) <= MaxDeviceEvents
  /\ Len(LogsRead(kv[KeyRecent])) <= MaxRecent
  /\ Len(UniqueDevices) <= MaxUniqueDevices

\* The step of task t that writes the device list leaves its own entry first.
DeviceNewestFirst(t) ==
  (ana[t].pc = "devput" /\ ana'[t].pc = "statsget") =>
    Head(kv'[KeyDevice(ana[t].deviceId)].val) =
      DeviceEvent(ana[t].eventName, TimestampOr(ana[t].timestamp, ana[t].now), ana[t].now)

\* The step of task t that writes the recent list leaves its own entry first.
RecentNewestFirst(t) ==
  (ana[t].pc = "recentput" /\ ana'[t].pc = "done") =>
    Head(kv'[KeyRecent].val) =
      RecentEvent(ana[t].eventName, ana[t].deviceId,
                  TimestampOr(ana[t].timestamp, ana[t].now), ana[t].now)

\* Task t writes the statistics and its device was not in the list it read.
AddsUniqueDevice(t) ==
  /\ ana[t].pc = "statsput" /\ ana'[t].pc = "recentget"
  /\ ~Contains(ana[t].stats.uniqueDevices, ana[t].deviceId)

\* C9 as the specification states it: the three size bounds, and in each of
\* the three lists the most recently written entry is first.
C9_AsStated ==
  /\ []AnalyticsSizes
  /\ [][\A t \in AnaTasks :
          /\ DeviceNewestFirst(t)
          /\ RecentNewestFirst(t)
          /\ AddsUniqueDevice(t) => Head(kv'[KeyStats].val.uniqueDevices) = ana[t].deviceId]_vars

\* C9: in every reachable state each device list has at most 50 entries, the
\* recent list at most 100 and uniqueDevices at most 1000, in any interleaving
\* of accepted events; the device list and the recent list have the most
\* recently written entry first, uniqueDevices has the most recently added
\* device last.
C9_AnalyticsBounds ==
  /\ []AnalyticsSizes
  /\ [][\A t \in AnaTasks :
          /\ DeviceNewestFirst(t)
          /\ RecentNewestFirst(t)
          /\ AddsUniqueDevice(t) =>
               kv'[KeyStats].val.uniqueDevices[Len(kv'[KeyStats].val.uniqueDevices)]
                 = ana[t].deviceId]_vars

\* Two accepted events of two new devices on lists one short of their caps:
\* every list is at its cap, the newest device is last and the oldest dropped.
C9_Witness ==
  /\ \A t \in AnaTasks : ana[t].pc = "done" /\ ana[t].status = 200
  /\ ana["t1"].deviceId = "devicA00-1234" /\ ana["t2"].deviceId = "devicB00-5678"
  /\ Len(LogsRead(kv[KeyDevice("devicA00-1234")])) = MaxDeviceEvents
  /\ Len(LogsRead(kv[KeyRecent])) = MaxRecent
  /\ Len(UniqueDevices) = MaxUniqueDevices
  /\ UniqueDevices[MaxUniqueDevices] \in DeviceIds
  /\ UniqueDevices[1] # OldDevice(1)
  /\ Head(LogsRead(kv[KeyRecent])).receivedAt > 0

-----------------------------------------------------------------------------
(* Claims about the provider's outcome *)

\* The provider was called for a request that passed every check and returned
\* {success: false}.
ProviderFailed(q) ==
  PassesAllChecks(q) /\ q.executed /\ ~q.result.threw /\ ~q.result.success

\* The provider was called for a request that passed every check and its
\* execute rejected.
ProviderThrew(q) == PassesAllChecks(q) /\ q.executed /\ q.result.threw

\* C11 as stated: when execute returns success:false the dispatcher logs an
\* 'error' entry with the provider's message and answers the sender 422.
C11_AsStated ==
  \A r \in Reqs :
    LET q == req[r]
    IN (Finished(q) /\ ProviderFailed(q)) =>
         /\ LoggedOnce(q, "error", q.result.message)
         /\ q.resp.status = 422

\* C11: when execute returns success:false for a verified event on an active
\* config, the dispatcher appends one log entry with status 'error' carrying
\* the provider's message; the revision that awaits the provider answers 422
\* with that message, the respond-then-process revision has already answered
\* 200 'accepted'.
C11_ProviderFailure ==
  \A r \in Reqs :
    LET q == req[r]
    IN (Finished(q) /\ ProviderFailed(q)) =>
         /\ LoggedOnce(q, "error", q.result.message)
         /\ q.logged[1].provider = ProviderNameOf(q.stored.val)
         /\ (mode = "sync") => q.resp = Resp(422, "text/plain", q.result.message)
         /\ (mode = "bg") => q.resp = RespAccepted

\* custom_http, downstream 500, awaited: 422 and one error entry.
C11_Witness ==
  \E r \in Reqs :
    /\ mode = "sync" /\ Finished(req[r]) /\ ProviderFailed(req[r])
    /\ req[r].result.message = "HTTP 500"
    /\ req[r].resp.status = 422
    /\ LoggedOnce(req[r], "error", "HTTP 500")

\* C12 as stated: when execute throws the dispatcher logs one 'error' entry
\* containing the exception message and the sender receives 200.
C12_AsStated ==
  \A r \in Reqs :
    LET q == req[r]
    IN (Finished(q) /\ ProviderThrew(q)) =>
         /\ Len(q.logged) = 1 /\ q.logged[1].status = "error"
         /\ q.resp.status = 200

\* C12: when execute throws or rejects for a verified event on an active
\* config, the respond-then-process revision appends one log entry with status
\* 'error' containing the exception message and the sender has its 200
\* 'accepted'; the revision that awaits the provider answers 500 and its catch
\* writes one 'system' entry with status 'error' containing the exception
\* message.
C12_ProviderThrows ==
  \A r \in Reqs :
    LET q == req[r]
    IN (Finished(q) /\ ProviderThrew(q)) =>
         /\ (mode = "bg") =>
              /\ q.resp = RespAccepted
              /\ LoggedOnce(q, "error", "Error en provider: " \o q.result.message)
              /\ q.logged[1].type = q.ev.type
         /\ (mode = "sync") =>
              /\ q.resp = RespInternal
              /\ LoggedOnce(q, "error", "Error interno: " \o q.result.message)
              /\ q.logged[1].type = "system"

\* A network failure in the background: accepted with 200, one error entry.
C12_Witness ==
  \E r \in Reqs :
    /\ mode = "bg" /\ Finished(req[r]) /\ ProviderThrew(req[r])
    /\ req[r].result.message = "fetch failed"
    /\ req[r].resp.status = 200
    /\ LoggedOnce(req[r], "error", "Error en provider: fetch failed")

\* A correctly signed event on an active config whose provider name is not in
\* the registry.
UnknownProvider(q) ==
  /\ ExistingWebhook(q) /\ BodyParses(q) /\ ~Handshake(q) /\ CorrectlySigned(q)
  /\ q.stored.val.isActive
  /\ ProviderNameOf(q.stored.val) \notin ProviderNames

C15_ExecuteNeverThrows ==
  \A r \in Reqs : req[r].executed => ~req[r].result.threw

\* Request r has passed every check and its provider is about to be called.
ChecksPassed(r) == req[r].pc = "exec" /\ PassesAllChecks(req[r])

\* The provider did not return success for request r.
NotSucceeded(r) == req[r].executed /\ (req[r].result.threw \/ ~req[r].result.success)

\* Another request for the same webhook id is in flight.
OtherInFlight(r) ==
  \E o \in Reqs \ {r} : req[o].id = req[r].id /\ req[o].pc \notin {"idle", "done"}

\* Request r is over: 200 to the sender, its 'ok' entry first in the log, the
\* last-event fields of the config those of the event.
Recorded(r) ==
  LET q == req[r]
      logs == LogsRead(kv[KeyLogs(q.id)])
      config == kv[KeyWebhook(q.id)].val
  IN /\ Finished(q) /\ q.resp.status = 200
     /\ logs # <<>>
     /\ Head(logs) = ResultEntry(q.result, q.ev, ProviderNameOf(q.stored.val), q.now)
     /\ Head(logs).status = "ok" /\ Head(logs).time = q.now /\ Head(logs).type = q.ev.type
     /\ config.lastEventAt = q.now
     /\ config.lastEventType = q.ev.type
     /\ config.lastEventStatus = "ok"

\* C13: for an event that passes every check and whose provider returns
\* success, when its processing is allowed to run to completion and no other
\* request for the same webhook id is in flight, eventually logs:{id} has the
\* event's 'ok' entry first, webhook:{id} has lastEventAt, lastEventType and
\* lastEventStatus equal to the receive time, the type and 'ok', and the
\* sender has received 200.
C13_EventuallyRecorded ==
  \A r \in Reqs :
    (ChecksPassed(r) /\ ~OtherInFlight(r))
      ~> (Recorded(r) \/ NotSucceeded(r) \/ OtherInFlight(r))

\* A lone successful event, fully recorded, the other request not started.
C13_Witness ==
  /\ mode = "bg"
  /\ PassesAllChecks(req["r1"]) /\ req["r1"].result.success
  /\ Recorded("r1")
  /\ req["r2"].pc = "idle"
  /\ Len(LogsRead(kv[KeyLogs("w1")])) = MaxLogs

-----------------------------------------------------------------------------
(* Claims about failures inside the dispatcher *)

\* C16: no promise the dispatcher hands to waitUntil ever rejects, whatever
\* the provider call or any store read or write does.
C16_WaitUntilNeverRejects ==
  \A r \in Reqs : mode = "bg" => req[r].next # "rejected"

SystemEntries(q) == {i \in 1..Len(q.logged) : q.logged[i].type = "system"}

\* An exception was raised in onRequestPost itself after the config was found:
\* JSON.parse of the body, data.token of a handshake without data and, where
\* the handler awaits them, the provider call and the store calls.
PipelineThrew(q) ==
  /\ ExistingWebhook(q)
  /\ \/ q.verdict = "parse_error"
     \/ q.verdict = "verify_nodata" /\ (q.pc = "fallback" \/ Responded(q))
     \/ mode = "sync" /\ q.executed /\ q.result.threw
     \/ mode = "sync" /\ q.next \in {"failed", "unlogged"}

\* C17 as stated: every exception in the request pipeline after the config was
\* found ends in 500 with the generic message, and the outermost handler has
\* attempted to write a log entry for it.
C17_AsStated ==
  \A r \in Reqs :
    LET q == req[r]
    IN (Finished(q) /\ PipelineThrew(q)) =>
         /\ q.resp = Resp(500, "text/plain", "Error interno del servidor.")
         /\ (SystemEntries(q) # {} \/ q.next = "unlogged")

\* C17: every exception raised in the request pipeline after the config was
\* found is caught by the outermost handler and answered 500 with the generic
\* message.  The revision that awaits its steps first tries to replace
\* logs:{id} by one 'system' entry carrying the exception message, and answers
\* 500 even when that write fails; the respond-then-process revision writes no
\* log entry for the exception.
C17_InternalError ==
  \A r \in Reqs :
    LET q == req[r]
    IN (Started(q) /\ PipelineThrew(q)) =>
         /\ Responded(q) => q.resp = Resp(500, "text/plain", "Error interno del servidor.")
         /\ Finished(q) => Responded(q)
         /\ (mode = "sync" /\ Finished(q) /\ q.next # "unlogged") =>
              /\ Cardinality(SystemEntries(q)) = 1
              /\ q.logged[Len(q.logged)] = SystemEntry(q.now, ErrorMessage(q))
         /\ (mode = "sync" /\ Finished(q) /\ q.next = "unlogged") => SystemEntries(q) = {}
         /\ (mode = "bg") => SystemEntries(q) = {}

\* The fallback write itself failed and the sender still got the 500.
C17_Witness ==
  \E r \in Reqs :
    /\ mode = "sync" /\ Finished(req[r]) /\ PipelineThrew(req[r])
    /\ req[r].verdict = "parse_error"
    /\ req[r].next = "unlogged"
    /\ req[r].resp.status = 500
    /\ req[r].writes = {}

C19_MalformedJson400 ==
  /\ \A r \in Reqs :
       (Finished(req[r]) /\ ExistingWebhook(req[r]) /\ ~BodyParses(req[r])) =>
         req[r].resp.status = 400 /\ req[r].writes = {}
  /\ \A t \in AnaTasks :
       (ana[t].pc = "done" /\ ~ana[t].json) => ana[t].status = 400

-----------------------------------------------------------------------------
(* Claims about the admin surface *)

\* The JSON objects of a response body: the elements of a list, or the body.
ResponseObjects(body) ==
  IF "list" \in DOMAIN body THEN {body.list[i] : i \in 1..Len(body.list)} ELSE {body}

\* C20: a config created through the admin POST and read through the
\* diagnostic GET has the businessName, provider and isActive it was created
\* with (isActive true when omitted), and likewise after an admin update; no
\* create, read, list, update or diagnostic response has a secretKey member.
C20_RoundTrip ==
  /\ ( /\ adm.pc = "idle" /\ adm.op = "diagnostic" /\ adm.resp.status = 200
       /\ adm.made[adm.id].exists ) =>
       LET sent == adm.made[adm.id].val
       IN /\ adm.resp.body.webhookId = adm.id
          /\ adm.resp.body.businessName = sent.businessName
          /\ adm.resp.body.provider = sent.provider
          /\ adm.resp.body.isActive = (IF sent.hasIsActive THEN sent.isActive ELSE TRUE)
  /\ \A o \in ResponseObjects(adm.resp.body) : "secretKey" \notin DOMAIN o

\* Created without isActive, read back through the diagnostic GET as active.
C20_Witness ==
  /\ adm.pc = "idle" /\ adm.op = "diagnostic" /\ adm.resp.status = 200
  /\ adm.made[adm.id].exists /\ ~adm.made[adm.id].val.hasIsActive
  /\ kv[KeyWebhook(adm.id)].val.secretKey = "K2"
  /\ adm.resp.body.businessName = "Biz2"
  /\ adm.resp.body.isActive = TRUE
  /\ "secretKey" \notin DOMAIN adm.resp.body

-----------------------------------------------------------------------------
(* C21 *)

\* Whether two stored configs agree on a field (a field neither has agrees).
SameField(a, b, f) ==
  /\ (f \in DOMAIN a) = (f \in DOMAIN b)
  /\ f \in DOMAIN a => a[f] = b[f]

AdminFields == {"businessName", "secretKey", "provider", "providerConfig", "isActive"}

\* The step in which request r writes webhook:{id}.
WritesConfig(r) ==
  /\ KeyWebhook(req[r].id) \notin req[r].writes
  /\ KeyWebhook(req[r].id) \in req'[r].writes

\* C21: the dispatcher mutates only the last-event fields of a stored config:
\* in every interleaving of an event's processing with admin updates of the
\* same webhook, the dispatcher's write leaves businessName, secretKey,
\* provider, providerConfig and isActive of webhook:{id} at the value the
\* admin wrote last (the value the store held just before the write).
C21_OnlyLastEventFields ==
  [][\A r \in Reqs :
       WritesConfig(r) =>
         /\ kv[KeyWebhook(req[r].id)].exists
         /\ \A f \in AdminFields :
              SameField(kv'[KeyWebhook(req[r].id)].val, kv[KeyWebhook(req[r].id)].val, f)]_vars

-----------------------------------------------------------------------------
(* C22 *)

\* The admin has just answered a DELETE.
DeleteAnswered == adm.pc = "idle" /\ adm.op \in DeleteHandlers

\* C22: a successful admin DELETE of an existing webhook id removes
\* webhook:{id}, removes the id from webhooks:index and removes logs:{id}; a
\* DELETE of an unknown id is answered 404 and changes nothing.
C22_DeleteRemovesAll ==
  /\ DeleteAnswered /\ adm.resp.status = 200 =>
       /\ ~kv[KeyWebhook(adm.id)].exists
       /\ ~Contains(IndexRead(kv[KeyIndex]), adm.id)
       /\ ~kv[KeyLogs(adm.id)].exists
  /\ DeleteAnswered => adm.resp.status \in {200, 404}

-----------------------------------------------------------------------------
(* C23 *)

\* Both events were delivered to the same existing webhook (bg revision),
\* each called logEvent once, and both tasks have run to completion.
BothTasksCompleted ==
  /\ mode = "bg"
  /\ \A r \in Reqs : /\ Finished(req[r])
                     /\ req[r].id = "w1"
                     /\ Len(req[r].logged) = 1

\* The stored log when the entries in es were put in front of the initial log.
LogWith(es) == Take(es \o OldLogs(InitLogLen), MaxLogs)

\* C23: two events delivered concurrently to the same webhook id end with
\* either both entries in front of the earlier log (in the order of their
\* writes) or, when the two logEvent calls overlap, the entry of only the
\* last writer: nothing but the lost update of the first writer can happen,
\* and it can happen (the witness).
C23_LastWriterWins ==
  BothTasksCompleted =>
    LET e1 == req["r1"].logged[1]
        e2 == req["r2"].logged[1]
    IN /\ kv[KeyLogs("w1")].exists
       /\ kv[KeyLogs("w1")].val \in
            { LogWith(<<e1, e2>>), LogWith(<<e2, e1>>), LogWith(<<e1>>), LogWith(<<e2>>) }

\* Both tasks ran to completion and the stored log holds the entry of one only.
C23_Witness ==
  /\ BothTasksCompleted
  /\ kv[KeyLogs("w1")].val = LogWith(<<req["r2"].logged[1]>>)
  /\ ~Contains(kv[KeyLogs("w1")].val, req["r1"].logged[1])
  /\ req["r1"].executed /\ req["r2"].executed

-----------------------------------------------------------------------------
(* C24 *)

\* Task t carries a body that parsed and lacks eventName or deviceId.
LacksRequired(a) == a.json /\ (a.eventName = "" \/ a.deviceId = "")

\* C24: an analytics POST whose body lacks eventName or lacks deviceId (or
\* has either empty) is answered 400 and mutates nothing: the step that
\* handles it leaves every key of the store as it was and starts no
\* background task, and the request never takes another step.
C24_InvalidAnalyticsRejected ==
  /\ [](\A t \in AnaTasks :
          (ana[t].pc # "idle" /\ LacksRequired(ana[t])) =>
            (ana[t].status = 400 /\ ana[t].pc = "done"))
  /\ [][\A t \in AnaTasks :
          (ana[t].pc = "idle" /\ ana'[t].pc # "idle" /\ LacksRequired(ana'[t])) => kv' = kv]_vars

\* A body without eventName was answered 400 over a store that holds
\* analytics already.
C24_Witness ==
  \E t \in AnaTasks :
    /\ ana[t].pc = "done" /\ ana[t].status = 400
    /\ ana[t].json /\ ana[t].eventName = "" /\ ana[t].deviceId # ""
    /\ kv[KeyStats].exists

-----------------------------------------------------------------------------
(* C25 *)

\* Task t moves from one position of the background task to the next.
Moves(t, from, to) == ana[t].pc = from /\ ana'[t].pc = to

\* Every value of stats.eventCounts is a number: the object has no text
\* under any name.
CountsAreNumbers(stats) ==
  \A e \in EventNames \cap InheritedNames : stats.eventCounts[e] = ""

\* C25: when accepted analytics events are processed one at a time, each
\* event adds exactly one entry at the front of its device's history,
\* increases stats.totalEvents by exactly 1, increases
\* stats.eventCounts[eventName] by exactly 1 (and no other count), adds the
\* deviceId to stats.uniqueDevices only if absent, and adds exactly one entry
\* at the front of appwallet:recent whose deviceId is the first 8 characters
\* of the real id followed by '...'.
C25_OneEventOneEntry ==
  [][\A t \in AnaTasks :
       LET a == ana[t]
           d == a.deviceId
           ts == IF a.timestamp # 0 THEN a.timestamp ELSE a.now
       IN /\ Moves(t, "devput", "statsget") =>
               kv'[KeyDevice(d)] =
                 Stored(Take(<<[eventName |-> a.eventName, timestamp |-> ts, receivedAt |-> a.now]>>
                               \o (IF kv[KeyDevice(d)].exists THEN kv[KeyDevice(d)].val ELSE <<>>),
                             MaxDeviceEvents))
          /\ Moves(t, "statsput", "recentget") =>
               LET old == IF kv[KeyStats].exists THEN kv[KeyStats].val ELSE EmptyStats
                   new == kv'[KeyStats].val
               IN /\ new.totalEvents = old.totalEvents + 1
                  /\ CountsAreNumbers(old) => CountsAreNumbers(new)
                  /\ \A e \in EventNames \ InheritedNames :
                       new.eventCounts[e] = old.eventCounts[e] + (IF e = a.eventName THEN 1 ELSE 0)
                  /\ new.uniqueDevices =
                       IF Contains(old.uniqueDevices, d) THEN old.uniqueDevices
                       ELSE LastN(old.uniqueDevices \o <<d>>, MaxUniqueDevices)
          /\ Moves(t, "recentput", "done") =>
               kv'[KeyRecent] =
                 Stored(Take(<<[eventName |-> a.eventName,
                                deviceId |-> [prefix |-> First8(d), suffix |-> "..."],
                                timestamp |-> ts, receivedAt |-> a.now]>>
                               \o (IF kv[KeyRecent].exists THEN kv[KeyRecent].val ELSE <<>>),
                             MaxRecent))]_vars

\* Two events of one device were processed one after the other over an empty
\* store: two history entries, two events counted, the device listed once.
C25_Witness ==
  /\ \A t \in AnaTasks : ana[t].pc = "done" /\ ana[t].status = 200
                         /\ ana[t].deviceId = "devicA00-1234"
  /\ kv[KeyStats].exists
  /\ kv[KeyStats].val.totalEvents = 2
  /\ kv[KeyStats].val.uniqueDevices = <<"devicA00-1234">>
  /\ Len(kv[KeyDevice("devicA00-1234")].val) = 2
  /\ Len(kv[KeyRecent].val) = 2
  /\ kv[KeyRecent].val[1].deviceId = [prefix |-> "devicA00", suffix |-> "..."]

-----------------------------------------------------------------------------
(* C26 *)

\* The forwarding config was stored before task t was accepted and is active.
ForwardingActiveFor(t) ==
  /\ kv[KeyAppConfig].exists
  /\ kv[KeyAppConfig].val.isActive
  /\ kv[KeyAppConfig].val.createdAt < ana[t].now

\* C26: after an analytics event is accepted, if appwallet:config exists and
\* its isActive is true, then once the background task has completed the
\* forward-log appwallet:logs holds at its front the outcome of executing the
\* configured provider with an event of type 'appwallet.' + eventName, and it
\* never exceeds 50 entries.
C26_ForwardedWhenActive ==
  \A t \in AnaTasks :
    (ana[t].pc = "done" /\ ana[t].status = 200 /\ ForwardingActiveFor(t)) =>
      /\ kv[KeyAppLogs].exists
      /\ Len(kv[KeyAppLogs].val) \in 1..MaxDeviceEvents
      /\ kv[KeyAppLogs].val[1].type = "appwallet." \o ana[t].eventName

-----------------------------------------------------------------------------
(* C27 *)

NoDuplicates(s) == Cardinality({s[i] : i \in 1..Len(s)}) = Len(s)

\* s is what is left of full when entries are removed from its front.
IsSuffixOf(s, full) ==
  /\ Len(s) <= Len(full)
  /\ s = SubSeq(full, Len(full) - Len(s) + 1, Len(full))

\* C27: stats.uniqueDevices never contains the same device id twice and
\* never holds more than 1000 ids; a write of the stats appends the event's
\* id to the list it read only if the id is absent from it, and when that
\* makes the list longer than 1000 the entries removed are the oldest ones,
\* from the front, so the ids that stay keep their first-seen order.
C27_UniqueDevicesFifo ==
  /\ [](kv[KeyStats].exists =>
          /\ NoDuplicates(kv[KeyStats].val.uniqueDevices)
          /\ Len(kv[KeyStats].val.uniqueDevices) <= MaxUniqueDevices)
  /\ [][\A t \in AnaTasks :
          Moves(t, "statsput", "recentget") =>
            LET read == ana[t].stats.uniqueDevices
                d == ana[t].deviceId
                full == IF Contains(read, d) THEN read ELSE read \o <<d>>
                new == kv'[KeyStats].val.uniqueDevices
            IN /\ IsSuffixOf(new, full)
               /\ Len(new) = Min(Len(full), MaxUniqueDevices)]_vars

\* Two new devices were added to a list one short of its cap: the oldest id
\* was dropped from the front and the two new ids are the last two.
C27_Witness ==
  /\ \A t \in AnaTasks : ana[t].pc = "done" /\ ana[t].status = 200
  /\ kv[KeyStats].exists
  /\ LET u == kv[KeyStats].val.uniqueDevices
     IN /\ Len(u) = MaxUniqueDevices
        /\ ~Contains(u, OldDevice(1))
        /\ u[1] = OldDevice(2)
        /\ {u[Len(u) - 1], u[Len(u)]} = DeviceIds

-----------------------------------------------------------------------------
(* C28 *)

\* C28: a stored config that has no provider field is dispatched to the
\* 'chatbotbuilder' provider, and a stored config that has no providerConfig
\* field is dispatched with providerConfig = {apiToken, customFieldId, flowId}
\* taken from the config's top-level fields; a config that has both fields
\* is dispatched with exactly those.
C28_LegacyDefaults ==
  \A r \in Reqs :
    req[r].executed =>
      LET c == req[r].stored.val
          d == req[r].dispatch
      IN /\ c.provider = Undef => d.provider = "chatbotbuilder"
         /\ c.provider # Undef => d.provider = GetProvider(c.provider)
         /\ "providerConfig" \notin DOMAIN c =>
              /\ DOMAIN d.config = {"apiToken", "customFieldId", "flowId"}
              /\ \A k \in DOMAIN d.config :
                   d.config[k] = (IF k \in DOMAIN c THEN c[k] ELSE Undef)
         /\ "providerConfig" \in DOMAIN c => d.config = c.providerConfig

\* An event was dispatched for a config of the legacy shape: no provider,
\* no providerConfig, the settings at the top level.
C28_Witness ==
  \E r \in Reqs :
    /\ req[r].executed
    /\ req[r].stored.val.provider = Undef
    /\ "providerConfig" \notin DOMAIN req[r].stored.val
    /\ req[r].dispatch.provider = "chatbotbuilder"
    /\ req[r].dispatch.config = [apiToken |-> "T1", customFieldId |-> "F1", flowId |-> "FL1"]

-----------------------------------------------------------------------------
(* C29 *)

\* C29: getProvider(name) returns a ProviderDefinition when name is one of
\* the seven registered names and the not-found value for every other
\* string; so every request that reaches the provider check with a config
\* whose provider name is not one of those seven is rejected with 400
\* 'unsupported provider' and no provider is executed.
C29_OnlyRegisteredNames ==
  \A r \in Reqs :
    LET q == req[r]
        name == ProviderNameOf(q.stored.val)
    IN (Started(q) /\ ExistingWebhook(q) /\ q.verdict \in {"noprovider", "pass"}) =>
         /\ name \in ProviderNames => GetProvider(name) = name
         /\ name \notin ProviderNames =>
              /\ GetProvider(name) = NotFound
              /\ q.verdict = "noprovider"
              /\ Responded(q) => q.resp = RespUnsupported
              /\ ~q.executed

-----------------------------------------------------------------------------
(* C30 *)

\* The request reached the handshake test: its webhook exists and its body parsed.
ReachedHandshakeTest(q) == Started(q) /\ ExistingWebhook(q) /\ BodyParses(q)

\* The body has no type and carries a token.
UntypedWithToken(q) ==
  /\ BodyParses(q)
  /\ q.ev.type \in {Undef, ""}
  /\ q.ev.hasData /\ q.ev.token \notin {Undef, ""}

\* C30: a request is treated as a handshake exactly when its type is
\* 'webhook.verify', or its type is absent (or otherwise falsy) and
\* data.token is present and truthy; so an unsigned event with no type that
\* carries a token is answered 200 with the token and never reaches
\* signature verification, the active check or a provider.
C30_HandshakeTest ==
  \A r \in Reqs :
    LET q == req[r]
    IN /\ ReachedHandshakeTest(q) =>
            ((q.verdict \in {"verify", "verify_nodata"})
               <=> (q.ev.type = "webhook.verify" \/ UntypedWithToken(q)))
       /\ (ReachedHandshakeTest(q) /\ UntypedWithToken(q) /\ Unsigned(q)) =>
            /\ Responded(q) => q.resp = Resp(200, "text/plain", q.ev.token)
            /\ Finished(q) => Responded(q)
            /\ q.passed = <<"config">>
            /\ ~q.executed
            /\ Len(q.logged) <= 1
            /\ \A i \in 1..Len(q.logged) : q.logged[i].type = "webhook.verify"

\* An unsigned body with no type and a token, sent to an inactive webhook,
\* was answered with the token.
C30_Witness ==
  \E r \in Reqs :
    /\ Finished(req[r]) /\ ExistingWebhook(req[r])
    /\ UntypedWithToken(req[r]) /\ Unsigned(req[r])
    /\ ~req[r].stored.val.isActive
    /\ req[r].resp.status = 200 /\ req[r].resp.body = "tok2"
    /\ Len(req[r].logged) = 1

-----------------------------------------------------------------------------
(* C31: the host tears the execution context down under a background task   *)

Teardown_Resumes(r) ==
  /\ mode = "bg"
  /\ Responded(req[r])
  /\ req[r].pc \in {"exec", "logget", "logput", "cfgwait"}
  /\ req[r].next # "torn"
  /\ req' = [req EXCEPT ![r].next = "torn"]
  /\ UNCHANGED <<kv, mode, clock, seqlog, ana, adm>>

\* bg revision: the host ends the execution context after onRequestPost has
\* returned its response and before the promise handed to waitUntil has
\* settled.  The task is dropped where it stands: its pending kv.put of
\* Promise.all and every later call of it are never made, and no code of
\* the handler runs again for this request.
Teardown(r) ==
  /\ mode = "bg"
  /\ Responded(req[r])
  /\ req[r].pc \in {"exec", "logget", "logput", "cfgwait"}
  /\ req' = [req EXCEPT ![r].pc = "done", ![r].next = "torn", ![r].cfgPending = FALSE]
  /\ UNCHANGED <<kv, mode, clock, seqlog, ana, adm>>

\* The dispatcher on a host that may end the execution context early.
SpecTeardown == InitLive /\ [][\E r \in Reqs : Start(r) \/ Run(r) \/ Teardown(r)]_vars

Torn(q) == q.next = "torn"

\* The stored log holds an entry of the request, or the stored config carries
\* the request's time as its last event.
RecordedInStore(q) ==
  \/ \E i \in 1..Len(LogsRead(kv[KeyLogs(q.id)])) : LogsRead(kv[KeyLogs(q.id)])[i].time = q.now
  \/ kv[KeyWebhook(q.id)].exists /\ kv[KeyWebhook(q.id)].val.lastEventAt = q.now

-----------------------------------------------------------------------------
(* C33 *)

\* The request was answered with the handshake reply or with one of the
\* rejections 401, 403, 400, 404.
EndsBlocked(q) ==
  /\ Responded(q)
  /\ \/ q.resp.status \in {401, 403, 400, 404}
     \/ Handshake(q) /\ q.resp = RespToken(q.ev.token)

LastEventStatuses ==
  { kv[KeyWebhook(id)].val.lastEventStatus : id \in {i \in Ids : kv[KeyWebhook(i)].exists} }

\* C33: a request answered with the handshake reply, 401, 403, 400 or 404
\* never writes webhook:{id}, neither before its response nor in what it
\* does afterwards; every step that changes a stored config is the step of a
\* request that passed all checks and ran its provider, and it leaves the
\* config with lastEventStatus 'ok' or 'error'; no stored config ever has
\* lastEventStatus 'blocked'.
C33_BlockedNeverWritesConfig ==
  /\ [](\A r \in Reqs : EndsBlocked(req[r]) => KeyWebhook(req[r].id) \notin req[r].writes)
  /\ [](LastEventStatuses \subseteq {Undef, "ok", "error"})
  /\ [][\A id \in Ids :
          kv'[KeyWebhook(id)] # kv[KeyWebhook(id)] =>
            /\ \E r \in Reqs :
                 /\ req'[r] # req[r] /\ req[r].id = id
                 /\ PassesAllChecks(req[r]) /\ req[r].executed /\ ~EndsBlocked(req[r])
            /\ kv'[KeyWebhook(id)].exists
            /\ kv'[KeyWebhook(id)].val.lastEventStatus \in {"ok", "error"}]_vars

\* Every kind of blocked request has finished (an inactive webhook answered
\* 403 with its 'blocked' log entry among them) while another request's
\* config write went through.
C33_Witness ==
  /\ \E r \in Reqs :
       /\ Finished(req[r]) /\ EndsBlocked(req[r]) /\ req[r].resp = RespInactive
       /\ Len(req[r].logged) = 1 /\ req[r].logged[1].status = "blocked"
       /\ KeyWebhook(req[r].id) \notin req[r].writes
  /\ \E r \in Reqs : Finished(req[r]) /\ req[r].resp.status \in {401, 400, 404}

-----------------------------------------------------------------------------
(* C34 *)

\* C34: in the respond-then-process revision every request to an existing
\* webhook appends at most one entry to logs:{id}, whatever the provider and
\* the store do; in particular, when the write of the config's last-event
\* fields fails after the result was logged, no second entry is written for
\* the same event.
C34_AtMostOneEntry ==
  \A r \in Reqs :
    (mode = "bg" /\ ExistingWebhook(req[r])) => Len(req[r].logged) <= 1

-----------------------------------------------------------------------------
(* C35 *)

\* The step of request r that writes logs:{id} keeps the earlier entries: the
\* list it stores is a new entry followed by the list the request read, cut
\* to the cap, and it is not shorter than the list it replaces.
KeepsHistory(r, id) ==
  LET new == kv'[KeyLogs(id)].val
      old == LogsRead(kv[KeyLogs(id)])
  IN /\ req[r].id = id
     /\ kv'[KeyLogs(id)].exists
     /\ Len(new) >= 1
     /\ new = Take(<<new[1]>> \o req[r].logs, MaxLogs)
     /\ Len(new) >= Len(old)

\* C35: every write the dispatcher makes to logs:{id} keeps the earlier
\* entries: the new list is the new entry followed by the list it read,
\* minus only the oldest entry when that list already had 10; no dispatcher
\* path, the internal-error path included, replaces the history with a
\* shorter one.
C35_LogWritesKeepHistory ==
  [][\A id \in Ids :
       kv'[KeyLogs(id)] # kv[KeyLogs(id)] =>
         \E r \in Reqs : req'[r] # req[r] /\ KeepsHistory(r, id)]_vars

-----------------------------------------------------------------------------
(* C36: events for two webhooks at once *)

\* Two active custom_http configs, each with a log one short of its cap, and
\* the index and the analytics keys absent.
InitTwo ==
  /\ mode \in {"bg", "sync"}
  /\ clock = 0
  /\ kv = [k \in Keys |->
             CASE \E i \in Ids : k = KeyWebhook(i) -> Stored(Config("custom_http", TRUE))
               [] \E i \in Ids : k = KeyLogs(i) -> Stored(OldLogs(InitLogLen))
               [] OTHER -> Absent]
  /\ req = [r \in Reqs |-> IdleReq]
  /\ seqlog = IdleSeqlog
  /\ ana = IdleAna
  /\ adm = IdleAdm

SpecTwo == InitTwo /\ [][Next]_vars

\* C36: processing a request for webhook id A, whatever its outcome and in
\* any interleaving, writes only webhook:A and logs:A: every step that changes
\* a key of the store is a step of a request whose id is A and the key is
\* webhook:A or logs:A; webhook:B and logs:B of another id B, webhooks:index
\* and the appwallet:* keys are left as they were.
C36_WritesOnlyOwnKeys ==
  [][\A k \in DOMAIN kv :
       kv'[k] # kv[k] =>
         \E r \in Reqs :
           /\ req'[r] # req[r]
           /\ k \in {<<"webhook", req[r].id>>, <<"logs", req[r].id>>}]_vars

\* Two requests, one for each webhook, were processed to the end side by
\* side: each stored its entry and its last-event fields under its own id.
C36_Witness ==
  /\ \A r \in Reqs : Finished(req[r]) /\ PassesAllChecks(req[r])
  /\ req["r1"].id # req["r2"].id
  /\ \A r \in Reqs :
       /\ req[r].writes = {<<"webhook", req[r].id>>, <<"logs", req[r].id>>}
       /\ kv[<<"webhook", req[r].id>>].val.lastEventAt = req[r].now
       /\ kv[<<"logs", req[r].id>>].val[1].time = req[r].now
       /\ Len(kv[<<"logs", req[r].id>>].val) = Min(InitLogLen + 1, MaxLogs)

-----------------------------------------------------------------------------
(* C37: an event in flight while the admin deletes its webhook *)

\* One event delivered while the admin deletes webhooks: the dispatcher's
\* awaited calls interleave with the store calls of the admin DELETE.
SpecGone ==
  InitRace /\ [][\/ Start("r1") \/ Run("r1")
                 \/ AdminDeleteGet \/ AdminDeleteConfig \/ AdminDeleteIndexGet
                 \/ AdminDeleteIndexSave \/ AdminDeleteLogs]_vars

\* C37: once the admin DELETE of webhooks/[id].ts has answered 200 for an
\* id, webhook:{id} and logs:{id} are absent and stay absent: no dispatcher
\* request or background task that was in flight for that id writes either
\* key again.
C37_DeletedStaysAbsent ==
  (DeleteAnswered /\ adm.op = "webhooks/[id].ts" /\ adm.resp.status = 200) =>
    /\ ~kv[KeyWebhook(adm.id)].exists
    /\ ~kv[KeyLogs(adm.id)].exists

-----------------------------------------------------------------------------
(* C38: the ingestor beside an admin reset of the analytics *)

\* The analytics keys almost full, and an admin who makes one more call.
InitReset ==
  /\ mode = "bg"
  /\ clock = 0
  /\ kv = [EmptyStore EXCEPT
             ![KeyDevice("devicA00-1234")] = Stored(OldDeviceEvents(InitDeviceLen)),
             ![KeyRecent] = Stored(OldRecent(InitRecentLen)),
             ![KeyStats] = Stored(OldStats(InitUniqueLen))]
  /\ req = [r \in Reqs |-> IdleReq]
  /\ seqlog = IdleSeqlog
  /\ ana = IdleAna
  /\ adm = [IdleAdm EXCEPT !.calls = MaxAdminCalls - 1]

\* Two accepted events of one device, of any of the event names, processed
\* side by side while the admin resets the analytics.
SpecReset ==
  InitReset /\ [][\/ \E t \in AnaTasks :
                      \/ /\ AnaPost(t)
                         /\ ana'[t].status = 200 /\ ana'[t].timestamp = 0
                         /\ ana'[t].deviceId = "devicA00-1234"
                      \/ DevGet(t) \/ DevPut(t) \/ StatsGet(t) \/ StatsPut(t)
                      \/ RecentGet(t) \/ RecentPut(t)
                   \/ AppWalletDelete
                   \/ AppWalletDeleteKey]_vars

RECURSIVE SumCounts(_, _)
SumCounts(counts, names) ==
  IF names = {} THEN 0
  ELSE LET e == CHOOSE x \in names : TRUE
       IN counts[e] + SumCounts(counts, names \ {e})

\* C38: in every reachable state in which appwallet:stats exists,
\* stats.totalEvents equals the sum of all values of stats.eventCounts, in any
\* interleaving of concurrent analytics tasks and admin resets.
C38_TotalIsSumOfCounts ==
  kv[KeyStats].exists =>
    /\ CountsAreNumbers(kv[KeyStats].val)
    /\ kv[KeyStats].val.totalEvents =
         SumCounts(kv[KeyStats].val.eventCounts, EventNames \ InheritedNames)

-----------------------------------------------------------------------------
(* C39: admin deletes beside another client's admin create *)

SpecIndex ==
  InitDelete /\ [][\/ AdminDeleteGet \/ AdminDeleteConfig \/ AdminDeleteIndexGet
                   \/ AdminDeleteIndexSave \/ AdminDeleteLogs
                   \/ ConcurrentAdminPost]_vars

\* C39: whenever no admin create or delete is in progress, webhooks:index
\* contains exactly the ids for which webhook:{id} exists, each once, after
\* any interleaving of concurrent admin create and delete operations.
C39_IndexMatchesConfigs ==
  adm.pc = "idle" =>
    /\ \A id \in Ids : Contains(IndexRead(kv[KeyIndex]), id) <=> kv[KeyWebhook(id)].exists
    /\ NoDuplicates(IndexRead(kv[KeyIndex]))

-----------------------------------------------------------------------------
(* C40 *)

\* The step in which the admin PUT writes webhook:{id}.
PutWrites == adm.pc = "put_put" /\ adm'.pc = "idle"

\* The step in which the admin PUT is answered without a write.
PutRefused ==
  adm.pc = "idle" /\ adm'.op = "update" /\ adm'.calls = adm.calls + 1 /\ adm'.pc = "idle"

KeptFields == {"createdAt", "lastEventAt", "lastEventType", "lastEventStatus"}

====
